---- MODULE Spec2Model ----
(***************************************************************************)
(* Amazon Ads -> store synchronisation engine (syncAccount and its driver) *)
(* and the rule based keyword optimizer (processAccount and its driver).   *)
(* Money is counted in cents, time in minutes, ratios (ACOS, CTR, CPC) in  *)
(* units of 1/Scale.                                                       *)
(***************************************************************************)
EXTENDS Integers, Sequences, FiniteSets, TLC

VARIABLES
  now,            \* wall clock (Date.now()), minutes
  accountsDB,     \* table amazon_accounts: account id -> row
  campaigns,      \* table amazon_campaigns: set of rows
  adGroups,       \* table amazon_ad_groups: set of rows
  keywords,       \* table amazon_keywords: set of rows
  nextId,         \* next primary key handed out (database default / randomUUID)
  remote,         \* remote platform: account id -> campaigns it owns there
  STREAM_UPSERTS, \* env STREAM_UPSERTS
  STRICT_ONLY_REPORTS, \* env STRICT_ONLY_REPORTS
  ROLLING_SCHEDULE,    \* env ROLLING_SCHEDULE
  issued,         \* access tokens the token endpoint has issued so far
  faults,         \* refused listings and refused writes so far
  main,           \* position and locals of the sync driver main()
  sync,           \* position and locals of the syncAccount call in flight
  remoteKeyword,  \* remote platform: keyword id -> its bid (cents) and state there
  rulesDB,        \* table optimization_rules: rule id -> row
  optimization_logs,  \* table optimization_logs: rows in insertion order
  opt,            \* position and locals of the optimizer's main() and processAccount
  report,         \* position and locals of a getCampaignMetrics / getKeywordMetrics call
  evaluation,          \* arguments and result of a buildActionsForRule call
  apply           \* position and locals of an applyAmazonUpdates call

optVars == <<remoteKeyword, rulesDB, optimization_logs, opt>>

reportVars == <<report>>

sideVars == <<evaluation, apply>>

syncVars == <<now, accountsDB, campaigns, adGroups, keywords, nextId, remote,
              STREAM_UPSERTS, STRICT_ONLY_REPORTS, ROLLING_SCHEDULE, issued, faults, main,
              sync>>

NULL == "null"      \* an absent text value
NIL == 0 - 1        \* an absent number (ids, tokens and times are >= 0)

(* ---------------- bounds ---------------- *)
MaxId == 10         \* primary keys handed out in one behaviour
MaxTok == 3         \* access tokens issued in one behaviour
MaxCycle == 1       \* cycles of main() after the first
MaxFaults == 1      \* refused listings and refused writes in one behaviour

(* ---------------- program constants ---------------- *)
Scale == 100 * 100                \* ratios are kept in units of 1/10000
DAY_MS == 1440                 \* 24 * 60 * 60 * 1000 ms, here in minutes
REFRESH_MARGIN == 5            \* 5 * 60 * 1000 ms
DEFAULT_EXPIRES_IN == 60       \* refreshed.expires_in ?? 3600 seconds
DAYS_WINDOW == 7
SYNC_LOOP_MIN == 60
SKIP_METRICS == FALSE

(* ---------------- remote platform (environment) ---------------- *)
Accounts == {"a1", "a2"}
AccountSeq == <<"a1", "a2">>
AdGroupsOfCampaign == [c1 |-> <<"g1">>, c2 |-> <<>>, c3 |-> <<"g3">>]
KeywordsOfAdGroup == [g1 |-> <<"k1", "k2">>, g3 |-> <<"k3", "k4">>]
CampaignOfAdGroup == [g1 |-> "c1", g3 |-> "c3"]
AdGroupOfKeyword == [k1 |-> "g1", k2 |-> "g1", k3 |-> "g3", k4 |-> "g3"]
KeywordIds == {"k1", "k2", "k3", "k4"}
AdGroupSeq == <<"g1", "g3">>
RemoteKeyword == [bid |-> 100, state |-> "enabled"]   \* a new keyword: kw.bid (cents), kw.state

\* what one day of traffic adds to a keyword on the remote platform
DailyTraffic ==
  [k1 |-> [impressions |-> 40, clicks |-> 4, cost |-> 300, orders |-> 1, sales |-> 1000],
   k2 |-> [impressions |-> 30, clicks |-> 3, cost |-> 100, orders |-> 0, sales |-> 0],
   k3 |-> [impressions |-> 40, clicks |-> 4, cost |-> 300, orders |-> 1, sales |-> 1000],
   k4 |-> [impressions |-> 30, clicks |-> 3, cost |-> 100, orders |-> 0, sales |-> 0]]

(* ---------------- generic helpers ---------------- *)
Range(s) == { s[i] : i \in DOMAIN s }

SeqOfSet(seq, S) == SelectSeq(seq, LAMBDA x : x \in S)

RECURSIVE FlattenSeq(_)
FlattenSeq(ss) == IF ss = <<>> THEN <<>> ELSE Head(ss) \o FlattenSeq(Tail(ss))

\* Map.get(k) || dflt
MapGet(m, k, dflt) == IF k \in DOMAIN m THEN m[k] ELSE dflt

\* for (const [k, v] of b) a.set(k, v)
MapPutAll(a, b) == [k \in DOMAIN a \cup DOMAIN b |-> IF k \in DOMAIN b THEN b[k] ELSE a[k]]

EmptyMap == [k \in {} |-> NULL]

\* n / d in units of 1/Scale, or the fallback when the denominator is not positive
Ratio(n, d, fallback) == IF d > 0 THEN (n * Scale) \div d ELSE fallback

(* ---------------- store (generic upsert keyed by primary key) ---------------- *)
CampaignDefaults ==
  [id |-> NIL, account_id |-> NULL, campaign_id |-> NULL, spend |-> 0, impressions |-> 0,
   clicks |-> 0, orders |-> 0, acos |-> 0, ctr |-> 0, cpc |-> 0]

AdGroupDefaults ==
  [id |-> NIL, account_id |-> NULL, campaign_id |-> NIL, amazon_ad_group_id |-> NULL,
   spend |-> 0, impressions |-> 0, clicks |-> 0, orders |-> 0, acos |-> 0, ctr |-> 0, cpc |-> 0]

KeywordDefaults ==
  [id |-> NIL, campaign_id |-> NIL, keyword_id |-> NULL, amazon_keyword_id |-> NULL,
   ad_group_id |-> NIL, bid |-> 0, status |-> "unknown", spend |-> 0, impressions |-> 0,
   clicks |-> 0, orders |-> 0, acos |-> 0, ctr |-> 0, cpc |-> 0]

HasId(row) == "id" \in DOMAIN row /\ row.id # NIL

\* INSERT ... ON CONFLICT (id) DO UPDATE SET <the columns the row carries>
UpsertOne(table, row, dflt, newId) ==
  IF HasId(row) /\ \E e \in table : e.id = row.id
  THEN LET e == CHOOSE x \in table : x.id = row.id
           u == [f \in DOMAIN dflt |-> IF f \in DOMAIN row THEN row[f] ELSE e[f]]
       IN [table |-> (table \ {e}) \cup {u}, row |-> u, used |-> 0]
  ELSE LET u == [f \in DOMAIN dflt |->
                   IF f = "id" THEN (IF HasId(row) THEN row.id ELSE newId)
                   ELSE IF f \in DOMAIN row THEN row[f] ELSE dflt[f]]
       IN [table |-> table \cup {u}, row |-> u, used |-> IF HasId(row) THEN 0 ELSE 1]

\* supabase.from(t).upsert(rows).select(): the rows in order; a row without id
\* gets the next database-generated primary key
RECURSIVE Upsert(_, _, _, _)
Upsert(table, rows, dflt, next) ==
  IF rows = <<>> THEN [table |-> table, out |-> <<>>, next |-> next]
  ELSE LET one == UpsertOne(table, Head(rows), dflt, next)
           rest == Upsert(one.table, Tail(rows), dflt, next + one.used)
       IN [table |-> rest.table, out |-> <<one.row>> \o rest.out, next |-> rest.next]

Ids(table) == { r.id : r \in table }

\* the rows of an account in each table
CampaignsOf(table, a) == { c \in table : c.account_id = a }

AdGroupsOf(table, a) == { g \in table : g.account_id = a }

KeywordsOf(kwTable, campTable, a) ==
  { k \in kwTable : k.campaign_id \in Ids(CampaignsOf(campTable, a)) }

\* ({ ad_group_id, ...rest }) => rest
WithoutColumn(row, col) == [f \in DOMAIN row \ {col} |-> row[f]]

(* ---------------- Token Manager ---------------- *)
\* the check without the safety margin
NeedsRefresh_Expired(account, t) ==
  \/ account.access_token = NIL
  \/ account.token_expires_at = NIL
  \/ account.token_expires_at - t < 0

\* !accessToken || !expiresAt || expiresAt - now < 5 min
NeedsRefresh(account, t) ==
  \/ account.access_token = NIL
  \/ account.token_expires_at = NIL
  \/ account.token_expires_at - t < REFRESH_MARGIN

\* the row written by a successful refresh
RefreshedAccountRow(row, token, refreshToken, t) ==
  [row EXCEPT !.access_token = token,
              !.refresh_token = refreshToken,
              !.token_expires_at = t + DEFAULT_EXPIRES_IN,
              !.status = "active"]

\* .update({ status: "reauth_required" }).eq("id", account.id)
ReauthRow(row) == [row EXCEPT !.status = "reauth_required"]

\* the token endpoint can only say yes while it has tokens left to issue
RefreshOutcomes == IF issued < MaxTok THEN BOOLEAN ELSE {FALSE}

(* ---------------- Report Orchestrator: what a report call can return ---------------- *)
\* new Date(t).toISOString().split("T")[0]: the UTC calendar day of an instant,
\* as a day number
DateOf(t) == t \div DAY_MS

\* a range that reaches back daysWindow days from yesterday
buildDateRange_AsDescribed(daysWindow, t) ==
  LET end == t - DAY_MS
      start == end - daysWindow * DAY_MS
  IN [startDate |-> DateOf(start), endDate |-> DateOf(end)]

\* buildDateRange at the instant t
buildDateRange(daysWindow, t) ==
  LET end == t - DAY_MS
      start == end - (daysWindow - 1) * DAY_MS
  IN [startDate |-> DateOf(start), endDate |-> DateOf(end)]

(* ---------------- Report Orchestrator: one report call ---------------- *)
MaxFetches == 6     \* status fetches of one report call the model follows
MaxLines == 2       \* lines or elements of a downloaded payload

\* Math.ceil(a / b) for b > 0
CeilDiv(a, b) == (a + b - 1) \div b

\* a decoded JSON value: an object with an id, or null
RowObject(id) == [isObject |-> TRUE, id |-> id]
JsonNull == [isObject |-> FALSE, id |-> NULL]

\* the lines a payload can hold: two objects, a line that is no JSON, an empty
\* line, and the JSON text null
LineKinds == {"o1", "o2", "junk", "blank", "null"}

\* JSON.parse(l) in try / catch: the value, or null when it throws
ParseLine(l) ==
  IF l = "o1" THEN RowObject("c1") ELSE IF l = "o2" THEN RowObject("c2") ELSE JsonNull

\* JSON.parse(l) does not throw
Parses(l) == l \in {"o1", "o2", "null"}

\* text.trim().split("\n").filter((l) => l.trim().length > 0)
NonBlank(lines) == SelectSeq(lines, LAMBDA l : l # "blank")

\* JSON.parse(text) does not throw: an array, or one JSON value surrounded by
\* white space
ParsesWhole(payload) ==
  \/ payload.kind = "array"
  \/ payload.kind = "lines" /\ Len(NonBlank(payload.items)) = 1
        /\ Parses(NonBlank(payload.items)[1])

\* the NDJSON fallback: parse each line, drop what is not truthy
NdjsonRows(lines) ==
  LET parsed == [i \in 1..Len(NonBlank(lines)) |-> ParseLine(NonBlank(lines)[i])]
  IN SelectSeq(parsed, LAMBDA r : r.isObject)

\* the fallback as it would be if it were tried for every payload that is no array
downloadReportRows_LinesUnlessArray(resOk, payload) ==
  IF ~resOk THEN <<>>
  ELSE IF payload.kind = "array" THEN payload.items
  ELSE NdjsonRows(payload.items)

\* downloadReportRows: [] on a failed download; the array if the text parses as
\* one, [] if it parses as something else; the NDJSON fallback if it does not parse
downloadReportRows(resOk, payload) ==
  IF ~resOk THEN <<>>
  ELSE IF ParsesWhole(payload)
  THEN (IF payload.kind = "array" THEN payload.items ELSE <<>>)
  ELSE NdjsonRows(payload.items)

\* sequences over S of length 0..n
SeqsUpTo(S, n) == UNION { [1..k -> S] : k \in 0..n }

Payloads ==
  { [kind |-> "array", items |-> x] : x \in SeqsUpTo({RowObject("c1"), RowObject("c2")}, MaxLines) }
  \cup { [kind |-> "lines", items |-> x] : x \in SeqsUpTo(LineKinds, MaxLines) }

NoPayload == [kind |-> "none", items |-> <<>>]

\* the answers to the creation request: a report id; 425 with the id of the job
\* in flight in its detail; 425 without one; 400, 403, 404 or 405; another status
CreateOutcomes == {"created", "duplicate_with_id", "duplicate_without_id", "client_error",
                   "other_error"}

\* the answers to a status fetch
PollOutcomes == {"r401", "unauthorized_message", "SUCCESS", "COMPLETED", "SUCCESS_no_location",
                 "CANCELLED", "FAILURE", "ERROR", "FAILED", "PENDING", "PROCESSING"}

FailureStatuses == {"CANCELLED", "FAILURE", "ERROR", "FAILED"}

\* the loop would stop one fetch late
TimedOut_OneLate(infiniteWait, i, maxPolls) == ~infiniteWait /\ i >= maxPolls

\* if (!infiniteWait && i + 1 >= maxPolls) break
TimedOut(infiniteWait, i, maxPolls) == ~infiniteWait /\ i + 1 >= maxPolls

\* maxWait: REPORT_MAX_MIN * 60 * 1000, interval: REPORT_POLL_INTERVAL_MS, both in
\* one unit of time
IdleReport ==
  [pc |-> "idle", kind |-> NULL, maxWait |-> 0, interval |-> 1, maxPolls |-> 0,
   infiniteWait |-> FALSE, i |-> 0, fetches |-> 0, lastStatus |-> NULL,
   payload |-> NoPayload, resOk |-> FALSE, rows |-> <<>>, result |-> {}, how |-> "none",
   run |-> 0]            \* the call of syncAccount that launched it, counted from one

\* the end of a call: the Map it resolves to (here its keys) and why
ReportDone(r, rows, how) ==
  [r EXCEPT !.pc = "done", !.rows = rows, !.how = how,
            !.result = { rows[j].id : j \in DOMAIN rows }]

\* the call after the answer to its creation request
AfterCreate(rep, kind, create) ==
  LET r == [rep EXCEPT !.kind = kind,
              !.maxPolls = CeilDiv(rep.maxWait, rep.interval),
              !.infiniteWait = rep.maxWait <= 0]
  IN IF create \in {"created", "duplicate_with_id"}
     THEN [r EXCEPT !.pc = "poll"]
     ELSE IF create = "other_error"
     THEN ReportDone([rep EXCEPT !.kind = kind], <<>>, "caught")
     ELSE ReportDone([rep EXCEPT !.kind = kind], <<>>, "unavailable")

\* getCampaignMetrics / getKeywordMetrics up to the poll loop
ReportCreate ==
  /\ report.pc = "idle"
  /\ \E kind \in {"campaign", "keyword"}, create \in CreateOutcomes :
       report' = AfterCreate(report, kind, create)
  /\ UNCHANGED <<syncVars, optVars, sideVars>>

\* one turn of for (let i = 0; ; i++): the status fetch, and for a job still
\* running the sleep and the deadline test
ReportPoll ==
  /\ report.pc = "poll"
  /\ report.fetches < MaxFetches
  /\ \E status \in PollOutcomes :
       LET r == [report EXCEPT !.fetches = @ + 1, !.lastStatus = status]
       IN report' =
            IF status \in {"r401", "unauthorized_message"} THEN ReportDone(r, <<>>, "unauthorized")
            ELSE IF status \in {"SUCCESS", "COMPLETED"} THEN [r EXCEPT !.pc = "download"]
            ELSE IF status = "SUCCESS_no_location" THEN ReportDone(r, <<>>, "no_location")
            ELSE IF status \in FailureStatuses THEN ReportDone(r, <<>>, "failure_status")
            ELSE IF TimedOut(report.infiniteWait, report.i, report.maxPolls)
            THEN ReportDone(r, <<>>, "timed_out")
            ELSE [r EXCEPT !.i = @ + 1]
  /\ UNCHANGED <<syncVars, optVars, sideVars>>

\* const rows = await downloadReportRows(downloadUrl); the Map built from them
ReportDownload ==
  /\ report.pc = "download"
  /\ \E resOk \in BOOLEAN, payload \in Payloads :
       /\ ~resOk => payload = [kind |-> "lines", items |-> <<>>]
       /\ report' = ReportDone([report EXCEPT !.payload = payload, !.resOk = resOk],
                               downloadReportRows(resOk, payload), "downloaded")
  /\ UNCHANGED <<syncVars, optVars, sideVars>>

\* getCampaignMetrics: one decoded report row -> the entry of byId
CampaignMetricsOfRow(r) ==
  [impressions |-> r.impressions, clicks |-> r.clicks, cost |-> r.cost,
   orders |-> r.orders, sales |-> r.sales,
   acos |-> Ratio(r.cost, r.sales, 0),
   ctr |-> Ratio(r.clicks, r.impressions, 0),
   cpc |-> Ratio(r.cost, r.clicks, 0)]

\* getKeywordMetrics: one decoded report row -> the entry of byKeywordId
KeywordMetricsOfRow(k, r) ==
  [campaignId |-> CampaignOfAdGroup[AdGroupOfKeyword[k]], adGroupId |-> AdGroupOfKeyword[k],
   impressions |-> r.impressions, clicks |-> r.clicks, cost |-> r.cost,
   orders |-> r.orders, sales |-> r.sales]

RemoteCampaignIds(a) == Range(remote[a])
RemoteAdGroupIds(a) == UNION { Range(AdGroupsOfCampaign[c]) : c \in RemoteCampaignIds(a) }
RemoteKeywordIds(a) == UNION { Range(KeywordsOfAdGroup[g]) : g \in RemoteAdGroupIds(a) }
KeywordsOfCampaign(c) == UNION { Range(KeywordsOfAdGroup[g]) : g \in Range(AdGroupsOfCampaign[c]) }

\* windowDays || DAYS_WINDOW
Days(windowDays) == IF windowDays = NIL \/ windowDays = 0 THEN DAYS_WINDOW ELSE windowDays

RECURSIVE SumTraffic(_, _)
SumTraffic(ks, f) ==
  IF ks = {} THEN 0
  ELSE LET k == CHOOSE x \in ks : TRUE IN DailyTraffic[k][f] + SumTraffic(ks \ {k}, f)

\* the decoded report rows of a window: one per keyword, one per campaign that
\* had traffic
KeywordReportRow(k, days) == [f \in DOMAIN DailyTraffic[k] |-> DailyTraffic[k][f] * days]

CampaignReportRow(c, days) ==
  [f \in {"impressions", "clicks", "cost", "orders", "sales"} |->
     SumTraffic(KeywordsOfCampaign(c), f) * days]

\* every Map getCampaignMetrics can resolve to; the empty Map stands for a rejected
\* creation, a terminal failure status, a poll timeout, a 401 and a caught error
CampaignReports(a, days) ==
  { EmptyMap,
    [c \in { x \in RemoteCampaignIds(a) : KeywordsOfCampaign(x) # {} } |->
       CampaignMetricsOfRow(CampaignReportRow(c, days))] }

KeywordReports(a, days) ==
  { EmptyMap,
    [k \in RemoteKeywordIds(a) |-> KeywordMetricsOfRow(k, KeywordReportRow(k, days))] }

\* an entity-listing call: answered at once; answered 401, the token refreshed or
\* not, and the one re-send answered or refused; refused with another status
FetchOutcomes == {"ok", "r401_ok", "r401_fail", "r401_stale_ok", "r401_stale_fail", "fail"}

\* the outcomes the fault bound still allows
Allowed(outcomes, used) == IF faults + used < MaxFaults THEN outcomes ELSE {"ok"}

AllowedErrors(used) == IF faults + used < MaxFaults THEN BOOLEAN ELSE {FALSE}

Cost(outcome) == IF outcome = "ok" THEN 0 ELSE 1

ErrorCost(error) == IF error THEN 1 ELSE 0

RECURSIVE CostOf(_)
CostOf(f) ==
  IF DOMAIN f = {} THEN 0
  ELSE LET g == CHOOSE x \in DOMAIN f : TRUE
       IN Cost(f[g]) + CostOf([h \in DOMAIN f \ {g} |-> f[h]])

\* a keyword upsert: accepted, refused with 23503 and then accepted or refused on
\* the retry without ad_group_id, or refused with another error
KeywordUpsertOutcomes == {"ok", "fk_ok", "fk_fail", "error"}

(* ---------------- syncAccount: locals ---------------- *)
NoTrace ==
  [startRefresh |-> "none", startTokenCalls |-> 0, firstToken |-> NIL, at |-> NIL,
   given |-> EmptyMap, tokenCalls |-> 0, listCalls |-> 0, calls |-> <<>>,
   range |-> EmptyMap, unreadKw |-> "none", fallback |-> "none",
   kwUpserts |-> <<>>,   \* per keyword batch: how the upsert went, the requests it took
   reportCalls |-> 0, writes |-> 0, campReport |-> "none", kwReport |-> "none",
   outcome |-> "none"]

IdleSync ==
  [pc |-> "idle", account |-> NULL, windowDays |-> NIL, accessToken |-> NIL,
   refreshToken |-> NULL,
   oldCampaigns |-> {}, oldKeywords |-> {}, existingAdGroupIdMap |-> EmptyMap,
   amazonCampaigns |-> <<>>, metricsByCampaignId |-> EmptyMap, campaignIdMap |-> EmptyMap,
   adGroupIdMap |-> EmptyMap, insertedAdGroups |-> <<>>, adGroupRows |-> <<>>,
   adGroupAmazonToCampaignAmazon |-> <<>>, keywordRows |-> <<>>, idx |-> 0,
   pre |-> [campaigns |-> {}, adGroups |-> {}, keywords |-> {}, account |-> EmptyMap,
            remote |-> <<>>],
   trace |-> NoTrace]

\* oldCampaigns, oldKeywords and existingAdGroupIdMap as loaded from the store
OldCampaigns(a) == { c \in campaigns : c.account_id = a }

OldKeywords(a) ==
  LET ids == { c.id : c \in OldCampaigns(a) }
  IN IF ids # {} THEN { k \in keywords : k.campaign_id \in ids } ELSE {}

\* Map.set per row in select order: for one provider id the last row wins; rows
\* come back in insertion order, so that is the row with the greatest primary key
ExistingAdGroupIdMap(a) ==
  LET rows == { g \in adGroups : g.account_id = a /\ g.amazon_ad_group_id # NULL /\ g.id # NIL }
      keys == { g.amazon_ad_group_id : g \in rows }
  IN [k \in keys |->
        (CHOOSE g \in rows : g.amazon_ad_group_id = k /\
            \A h \in rows : h.amazon_ad_group_id = k => h.id <= g.id).id]

\* oldCampaignMetricsByCampaignId.get(campaignKey) || null
OldCampaignMetrics(old, key) ==
  IF \E c \in old : c.campaign_id = key
  THEN LET c == CHOOSE x \in old : x.campaign_id = key
       IN [spend |-> c.spend, impressions |-> c.impressions, clicks |-> c.clicks,
           orders |-> c.orders, acos |-> c.acos, ctr |-> c.ctr, cpc |-> c.cpc]
  ELSE EmptyMap

\* oldKeywordMetricsByKeywordId.get(keywordAmazonId) || {}
OldKeywordMetrics(old, key) ==
  IF \E k \in old : k.keyword_id = key
  THEN LET k == CHOOSE x \in old : x.keyword_id = key
       IN [spend |-> k.spend, impressions |-> k.impressions, clicks |-> k.clicks,
           orders |-> k.orders, acos |-> k.acos]
  ELSE EmptyMap

\* existingKeywordIdByAmazonId.get(keywordAmazonId)
ExistingKeywordId(old, key) ==
  IF \E k \in old : k.keyword_id # NULL /\ k.amazon_keyword_id = key /\ k.id # NIL
  THEN (CHOOSE k \in old : k.keyword_id # NULL /\ k.amazon_keyword_id = key /\ k.id # NIL).id
  ELSE NIL

\* oldCampaigns?.find((oc) => String(oc.campaign_id) === c.campaign_id)?.id
ExistingCampaignId(old, key) ==
  IF \E c \in old : c.campaign_id = key
  THEN (CHOOSE c \in old : c.campaign_id = key).id
  ELSE NIL

\* base.f ?? dflt
Field(base, f, dflt) == IF f \in DOMAIN base THEN base[f] ELSE dflt

\* the metric columns written for a campaign from base = newM || oldM || zeros
CampaignColumns(base) ==
  LET spend == Field(base, "cost", Field(base, "spend", 0))
      impressions == Field(base, "impressions", 0)
      clicks == Field(base, "clicks", 0)
      orders == Field(base, "orders", 0)
      sales == Field(base, "sales", 0)
  IN [spend |-> spend, impressions |-> impressions, clicks |-> clicks, orders |-> orders,
      acos |-> Ratio(spend, sales, Field(base, "acos", 0)),
      ctr |-> Ratio(clicks, impressions, Field(base, "ctr", 0)),
      cpc |-> Ratio(spend, clicks, Field(base, "cpc", 0))]

ZeroCampaignMetrics ==
  [impressions |-> 0, clicks |-> 0, cost |-> 0, orders |-> 0, sales |-> 0,
   acos |-> 0, ctr |-> 0, cpc |-> 0]

\* campaignsToInsert as it would be without the carry-over: zeros when the report
\* has no row for the campaign
CampaignRow_ZeroWhenNoReport(a, c, metrics, old) ==
  LET cols == CampaignColumns(MapGet(metrics, c, ZeroCampaignMetrics))
      row == [account_id |-> a, campaign_id |-> c, spend |-> cols.spend,
              impressions |-> cols.impressions, clicks |-> cols.clicks,
              orders |-> cols.orders, acos |-> cols.acos, ctr |-> cols.ctr, cpc |-> cols.cpc]
      existingId == ExistingCampaignId(old, c)
  IN IF existingId # NIL THEN [id |-> existingId] @@ row ELSE row

\* one element of campaignsToInsert, with the existing primary key attached when
\* the store already holds the provider id
CampaignRow(a, c, metrics, old) ==
  LET newM == MapGet(metrics, c, EmptyMap)
      oldM == OldCampaignMetrics(old, c)
      base == IF DOMAIN newM # {} THEN newM ELSE IF DOMAIN oldM # {} THEN oldM ELSE ZeroCampaignMetrics
      cols == CampaignColumns(base)
      row == [account_id |-> a, campaign_id |-> c, spend |-> cols.spend,
              impressions |-> cols.impressions, clicks |-> cols.clicks,
              orders |-> cols.orders, acos |-> cols.acos, ctr |-> cols.ctr, cpc |-> cols.cpc]
      existingId == ExistingCampaignId(old, c)
  IN IF existingId # NIL THEN [id |-> existingId] @@ row ELSE row

\* a keyword row as it would be without the lookup of the existing id
KeywordRow_AlwaysNewId(a, kw, campaignDbId, adGroupDbId, old, newId) ==
  LET oldKw == OldKeywordMetrics(old, kw)
  IN [id |-> newId,
      campaign_id |-> campaignDbId, keyword_id |-> kw, bid |-> remoteKeyword[kw].bid,
      status |-> remoteKeyword[kw].state,
      spend |-> Field(oldKw, "spend", 0), impressions |-> Field(oldKw, "impressions", 0),
      clicks |-> Field(oldKw, "clicks", 0), orders |-> Field(oldKw, "orders", 0),
      acos |-> Field(oldKw, "acos", 0),
      ad_group_id |-> adGroupDbId, amazon_keyword_id |-> kw]

\* one streamed or batched keyword row: carried-over metrics, reused or new id
KeywordRow(a, kw, campaignDbId, adGroupDbId, old, newId) ==
  LET oldKw == OldKeywordMetrics(old, kw)
      maybeExistingId == ExistingKeywordId(old, kw)
  IN [id |-> IF maybeExistingId # NIL THEN maybeExistingId ELSE newId,
      campaign_id |-> campaignDbId, keyword_id |-> kw, bid |-> remoteKeyword[kw].bid,
      status |-> remoteKeyword[kw].state,
      spend |-> Field(oldKw, "spend", 0), impressions |-> Field(oldKw, "impressions", 0),
      clicks |-> Field(oldKw, "clicks", 0), orders |-> Field(oldKw, "orders", 0),
      acos |-> Field(oldKw, "acos", 0),
      ad_group_id |-> adGroupDbId, amazon_keyword_id |-> kw]

(* ---------------- syncAccount: calls to the remote platform ---------------- *)
\* the state one run threads through its awaits: the access token in use, the
\* account table, the tokens issued, and the calls made so far
Ctx ==
  [tok |-> sync.accessToken, db |-> accountsDB, issued |-> issued,
   tokenCalls |-> sync.trace.tokenCalls, listCalls |-> sync.trace.listCalls,
   calls |-> sync.trace.calls]

\* a refresh that would use the new token and leave the account row as it was
RefreshAndUpdateAccessToken_NotStored(ctx, a, refreshToken, ok) ==
  IF refreshToken # NULL /\ ok /\ ctx.issued < MaxTok
  THEN [ctx EXCEPT !.tok = ctx.issued + 1, !.issued = ctx.issued + 1, !.tokenCalls = @ + 1]
  ELSE [ctx EXCEPT !.tokenCalls = @ + 1]

\* refreshAndUpdateAccessToken: on success use and persist the new token, on
\* failure log and carry on with the old one
RefreshAndUpdateAccessToken(ctx, a, refreshToken, ok) ==
  IF refreshToken # NULL /\ ok /\ ctx.issued < MaxTok
  THEN [ctx EXCEPT !.tok = ctx.issued + 1, !.issued = ctx.issued + 1,
                   !.db = [ctx.db EXCEPT ![a] =
                             RefreshedAccountRow(@, ctx.issued + 1, refreshToken, now)],
                   !.tokenCalls = @ + 1]
  ELSE [ctx EXCEPT !.tokenCalls = @ + 1]

\* the status of the first response of a listing call
FirstStatus(outcome) ==
  IF outcome = "ok" THEN 200 ELSE IF outcome = "fail" THEN 500 ELSE 401

\* a listing call that would refresh and send again after a refused re-send
ListCall_ThirdAttempt(ctx, a, refreshToken, outcome, what) ==
  LET again == FirstStatus(outcome) = 401
      ok == outcome \in {"ok", "r401_ok", "r401_stale_ok"}
      c1 == IF again
            THEN RefreshAndUpdateAccessToken(ctx, a, refreshToken,
                                             outcome \in {"r401_ok", "r401_fail"})
            ELSE ctx
      c2 == IF again /\ ~ok
            THEN RefreshAndUpdateAccessToken(c1, a, refreshToken, FALSE)
            ELSE c1
      sends == IF again THEN (IF ok THEN 2 ELSE 3) ELSE 1
  IN [ctx |-> [c2 EXCEPT !.listCalls = @ + sends,
                         !.calls = Append(@, [what |-> what, first |-> FirstStatus(outcome),
                                              refreshes |-> c2.tokenCalls - ctx.tokenCalls,
                                              sends |-> sends, ok |-> ok])],
      ok |-> ok]

\* fetch; if 401: refresh, fetch once more; calls keeps, per listing call, what was
\* listed, the first status, the refreshes and sends it took and how it ended
ListCall(ctx, a, refreshToken, outcome, what) ==
  LET again == FirstStatus(outcome) = 401
      c1 == IF again
            THEN RefreshAndUpdateAccessToken(ctx, a, refreshToken,
                                             outcome \in {"r401_ok", "r401_fail"})
            ELSE ctx
      sends == IF again THEN 2 ELSE 1
      ok == outcome \in {"ok", "r401_ok", "r401_stale_ok"}
  IN [ctx |-> [c1 EXCEPT !.listCalls = @ + sends,
                         !.calls = Append(@, [what |-> what, first |-> FirstStatus(outcome),
                                              refreshes |-> c1.tokenCalls - ctx.tokenCalls,
                                              sends |-> sends, ok |-> ok])],
      ok |-> ok]

AfterLoopPc == IF STREAM_UPSERTS THEN "returned" ELSE "batchKeywords"

LoopPc(s, i) == IF i <= Len(s.amazonCampaigns) THEN "adgroups" ELSE AfterLoopPc

\* how the run ended, for the states in which it has returned
Outcome(pc, how) == IF pc = "returned" THEN how ELSE "none"

\* what keywordMetricsPromise resolved to in a run that returns without awaiting it
Unread(pc, rep) == IF pc # "returned" THEN "none" ELSE IF DOMAIN rep = {} THEN "empty" ELSE "rows"

(* ---------------- syncAccount: up to the campaign listing ---------------- *)
\* syncAccount(account, windowDays) from its first line to the launch of the two
\* report orchestrations
SyncBegin(acct, windowDays) ==
  \E refreshOk \in RefreshOutcomes, fetch \in Allowed(FetchOutcomes, 0) :
    LET a == acct.id
        needs == NeedsRefresh(acct, now)
        s0 == [IdleSync EXCEPT !.account = a, !.windowDays = windowDays,
                 !.accessToken = acct.access_token, !.refreshToken = acct.refresh_token,
                 !.pre = [campaigns |-> campaigns, adGroups |-> adGroups,
                          keywords |-> keywords, account |-> accountsDB[a],
                          remote |-> remote[a]],
                 !.trace.at = now, !.trace.given = acct]
    IN IF needs /\ acct.refresh_token = NULL
       THEN /\ accountsDB' = [accountsDB EXCEPT ![a] = ReauthRow(@)]
            /\ issued' = issued
            /\ faults' = faults
            /\ sync' = [s0 EXCEPT !.pc = "returned", !.trace.outcome = "reauth_required",
                                  !.trace.startRefresh = "no_refresh_token"]
       ELSE IF needs /\ ~refreshOk
       THEN /\ accountsDB' = [accountsDB EXCEPT ![a] = ReauthRow(@)]
            /\ issued' = issued
            /\ faults' = faults
            /\ sync' = [s0 EXCEPT !.pc = "returned", !.trace.tokenCalls = 1,
                                  !.trace.startTokenCalls = 1,
                                  !.trace.outcome = "reauth_required",
                                  !.trace.startRefresh = "rejected"]
       ELSE
         LET tok == IF needs THEN issued + 1 ELSE acct.access_token
             db1 == IF needs
                    THEN [accountsDB EXCEPT ![a] =
                            RefreshedAccountRow(@, tok, acct.refresh_token, now)]
                    ELSE accountsDB
             iss1 == IF needs THEN issued + 1 ELSE issued
             s00 == [s0 EXCEPT !.trace.startRefresh =
                                 IF needs THEN "refreshed" ELSE "none",
                               !.trace.startTokenCalls = IF needs THEN 1 ELSE 0,
                               !.trace.firstToken = tok]
             ctx0 == [tok |-> tok, db |-> db1, issued |-> iss1,
                      tokenCalls |-> IF needs THEN 1 ELSE 0, listCalls |-> 0,
                      calls |-> <<>>]
         IN IF acct.amazon_profile_id = NULL
            THEN /\ accountsDB' = db1
                 /\ issued' = iss1
                 /\ faults' = faults
                 /\ sync' = [s00 EXCEPT !.pc = "returned", !.accessToken = tok,
                                       !.trace.tokenCalls = ctx0.tokenCalls,
                                       !.trace.outcome = "no_profile"]
            ELSE
              LET call == ListCall(ctx0, a, acct.refresh_token, fetch, "campaigns")
                  s1 == [s00 EXCEPT !.accessToken = call.ctx.tok,
                           !.oldCampaigns = OldCampaigns(a),
                           !.oldKeywords = OldKeywords(a),
                           !.existingAdGroupIdMap = ExistingAdGroupIdMap(a),
                           !.adGroupIdMap = ExistingAdGroupIdMap(a),
                           !.trace.tokenCalls = call.ctx.tokenCalls,
                           !.trace.listCalls = call.ctx.listCalls,
                           !.trace.calls = call.ctx.calls]
              IN /\ accountsDB' = call.ctx.db
                 /\ issued' = call.ctx.issued
                 /\ faults' = faults + Cost(fetch)
                 /\ sync' = IF call.ok
                            THEN [s1 EXCEPT !.pc = "campaigns",
                                    !.amazonCampaigns = remote[a],
                                    !.trace.reportCalls = IF SKIP_METRICS THEN 0 ELSE 2,
                                    !.trace.range =
                                       IF SKIP_METRICS THEN EmptyMap
                                       ELSE buildDateRange(Days(windowDays), now)]
                            ELSE [s1 EXCEPT !.pc = "returned",
                                    !.trace.outcome = "campaign_fetch_failed"]

(* ---------------- syncAccount: campaign report and campaign upsert ---------------- *)
SyncCampaigns ==
  /\ UNCHANGED <<optVars, reportVars, sideVars>>
  /\ sync.pc = "campaigns"
  /\ \E rep1 \in CampaignReports(sync.account, Days(sync.windowDays)),
        rep2 \in CampaignReports(sync.account, Days(sync.windowDays)),
        refreshOk \in RefreshOutcomes, upsertError \in AllowedErrors(0),
        kwRep \in KeywordReports(sync.account, Days(sync.windowDays)) :
       /\ DOMAIN rep1 # {} => DOMAIN rep2 = {} /\ ~refreshOk
       /\ (upsertError \/ LoopPc(sync, 1) # "returned") => DOMAIN kwRep = {}
       /\ LET a == sync.account
              retry == ~SKIP_METRICS /\ DOMAIN rep1 = {}
              ctx1 == IF retry
                      THEN RefreshAndUpdateAccessToken(Ctx, a, sync.refreshToken, refreshOk)
                      ELSE Ctx
              metrics == IF SKIP_METRICS THEN EmptyMap ELSE IF retry THEN rep2 ELSE rep1
              rows == [i \in 1..Len(sync.amazonCampaigns) |->
                         CampaignRow(a, sync.amazonCampaigns[i], metrics, sync.oldCampaigns)]
              write == rows # <<>>
              failed == write /\ upsertError
              up == IF write /\ ~failed
                    THEN Upsert(campaigns, rows, CampaignDefaults, nextId)
                    ELSE [table |-> campaigns, out |-> <<>>, next |-> nextId]
              idMap == [c \in { r.campaign_id : r \in Range(up.out) } |->
                          (CHOOSE r \in Range(up.out) : r.campaign_id = c).id]
              s1 == [sync EXCEPT !.accessToken = ctx1.tok,
                       !.metricsByCampaignId = metrics,
                       !.campaignIdMap = idMap,
                       !.idx = 1,
                       !.trace.tokenCalls = ctx1.tokenCalls,
                       !.trace.reportCalls = @ + (IF retry THEN 1 ELSE 0),
                       !.trace.writes = @ + (IF write /\ ~failed THEN 1 ELSE 0),
                       !.trace.campReport = IF DOMAIN metrics = {} THEN "empty" ELSE "rows"]
              pc1 == IF failed THEN "returned" ELSE LoopPc(sync, 1)
          IN /\ campaigns' = up.table
             /\ nextId' = up.next
             /\ accountsDB' = ctx1.db
             /\ issued' = ctx1.issued
             /\ faults' = faults + ErrorCost(failed)
             /\ sync' = [s1 EXCEPT !.pc = pc1,
                           !.trace.unreadKw = IF failed THEN "none" ELSE Unread(pc1, kwRep),
                           !.trace.outcome =
                              Outcome(pc1, IF failed THEN "campaign_upsert_error"
                                           ELSE "completed_stream")]
  /\ UNCHANGED <<now, adGroups, keywords, remote, STREAM_UPSERTS, STRICT_ONLY_REPORTS,
                 ROLLING_SCHEDULE, main>>

(* ---------------- syncAccount: ad groups and keywords ---------------- *)
\* the keyword rows built from one keyword listing; a keyword without a stored
\* row takes the next fresh id (randomUUID)
RECURSIVE KeywordRows(_, _, _, _, _, _)
KeywordRows(a, kws, campaignDbId, adGroupDbId, old, next) ==
  IF kws = <<>> THEN [rows |-> <<>>, next |-> next]
  ELSE LET row == KeywordRow(a, Head(kws), campaignDbId, adGroupDbId, old, next)
           rest == KeywordRows(a, Tail(kws), campaignDbId, adGroupDbId, old,
                               next + (IF row.id = next THEN 1 ELSE 0))
       IN [rows |-> <<row>> \o rest.rows, next |-> rest.next]

\* an upsert that would be sent again after any error
UpsertSends_AnyError(outcome) == IF outcome = "ok" THEN 1 ELSE 2

\* the upsert requests of one batch: a second one after 23503 only
UpsertSends(outcome) == IF outcome \in {"fk_ok", "fk_fail"} THEN 2 ELSE 1

UpsertRecord(outcome) ==
  [outcome |-> outcome, sends |-> UpsertSends(outcome), stored |-> outcome \in {"ok", "fk_ok"}]

\* upsert(rows); on 23503 upsert(rows without ad_group_id); any error is logged
KeywordUpsert(table, rows, outcome) ==
  IF outcome = "ok" THEN Upsert(table, rows, KeywordDefaults, 0).table
  ELSE IF outcome = "fk_ok"
  THEN Upsert(table, [i \in 1..Len(rows) |-> WithoutColumn(rows[i], "ad_group_id")],
              KeywordDefaults, 0).table
  ELSE table

\* [id, provider id] pairs as a Map provider id -> id (later entries win)
RECURSIVE IdMapOf(_, _)
IdMapOf(rows, key) ==
  IF rows = <<>> THEN EmptyMap
  ELSE MapPutAll([k \in {Head(rows)[key]} |-> Head(rows).id], IdMapOf(Tail(rows), key))

\* STREAM_UPSERTS: for (const agRow of perAgRows) { fetch keywords; upsert them }
RECURSIVE StreamKeywords(_, _, _, _, _)
StreamKeywords(ags, st, campaignDbId, kwFetch, kwUpsert) ==
  IF ags = <<>> THEN st
  ELSE
    LET g == Head(ags)
        adGroupDbId == MapGet(st.adGroupIdMap, g, NIL)
    IN IF adGroupDbId = NIL
       THEN StreamKeywords(Tail(ags), st, campaignDbId, kwFetch, kwUpsert)
       ELSE
         LET call == ListCall(st.ctx, sync.account, sync.refreshToken, kwFetch[g],
                             "keywords")
         IN IF ~call.ok
            THEN StreamKeywords(Tail(ags),
                                [st EXCEPT !.ctx = call.ctx, !.faults = @ + Cost(kwFetch[g])],
                                campaignDbId, kwFetch, kwUpsert)
            ELSE
              LET built == KeywordRows(sync.account, KeywordsOfAdGroup[g], campaignDbId,
                                       adGroupDbId, sync.oldKeywords, st.next)
                  write == built.rows # <<>>
                  stored == write /\ kwUpsert[g] \in {"ok", "fk_ok"}
              IN StreamKeywords(Tail(ags),
                   [st EXCEPT !.ctx = call.ctx, !.next = built.next,
                      !.keywordRows = @ \o built.rows,
                      !.keywords = IF write THEN KeywordUpsert(@, built.rows, kwUpsert[g]) ELSE @,
                      !.upserts = IF write THEN Append(@, UpsertRecord(kwUpsert[g])) ELSE @,
                      !.faults = @ + Cost(kwFetch[g]) + (IF write THEN Cost(kwUpsert[g]) ELSE 0),
                      !.writes = @ + (IF stored THEN 1 ELSE 0)],
                   campaignDbId, kwFetch, kwUpsert)

\* one turn of for (const c of amazonCampaigns)
SyncAdGroups ==
  /\ UNCHANGED <<optVars, reportVars, sideVars>>
  /\ sync.pc = "adgroups"
  /\ LET a == sync.account
         c == sync.amazonCampaigns[sync.idx]
         parentDbId == MapGet(sync.campaignIdMap, c, NIL)
         ags == AdGroupsOfCampaign[c]
     IN \E fetch \in Allowed(FetchOutcomes, 0), agUpsertError \in AllowedErrors(0),
           kwFetch \in [Range(ags) -> Allowed(FetchOutcomes, 0)],
           kwUpsert \in [Range(ags) -> Allowed(KeywordUpsertOutcomes, 0)],
           kwRep \in KeywordReports(sync.account, Days(sync.windowDays)) :
          /\ LoopPc(sync, sync.idx + 1) # "returned" => DOMAIN kwRep = {}
          /\ faults + Cost(fetch) + ErrorCost(agUpsertError) + CostOf(kwFetch)
                + CostOf(kwUpsert) <= MaxFaults
          /\ ~STREAM_UPSERTS =>
                /\ agUpsertError = FALSE
                /\ \A g \in Range(ags) : kwFetch[g] = "ok" /\ kwUpsert[g] = "ok"
          /\ LET call == IF parentDbId = NIL THEN [ctx |-> Ctx, ok |-> FALSE]
                         ELSE ListCall(Ctx, a, sync.refreshToken, fetch, "adGroups")
                 agRows == [i \in 1..Len(ags) |->
                              [account_id |-> a, campaign_id |-> parentDbId,
                               amazon_ad_group_id |-> ags[i]]]
                 stream == call.ok /\ STREAM_UPSERTS /\ agRows # <<>>
                 agStored == stream /\ ~agUpsertError
                 up == IF agStored THEN Upsert(adGroups, agRows, AdGroupDefaults, nextId)
                       ELSE [table |-> adGroups, out |-> <<>>, next |-> nextId]
                 st0 == [ctx |-> call.ctx, next |-> up.next, keywords |-> keywords,
                         keywordRows |-> sync.keywordRows,
                         faults |-> faults
                                    + (IF parentDbId = NIL THEN 0 ELSE Cost(fetch))
                                    + (IF stream THEN ErrorCost(agUpsertError) ELSE 0),
                         adGroupIdMap |-> MapPutAll(sync.adGroupIdMap,
                                                    IdMapOf(up.out, "amazon_ad_group_id")),
                         writes |-> sync.trace.writes + (IF agStored THEN 1 ELSE 0),
                         upserts |-> sync.trace.kwUpserts]
                 st1 == IF stream
                        THEN StreamKeywords(ags, st0, parentDbId, kwFetch, kwUpsert)
                        ELSE st0
                 pc1 == LoopPc(sync, sync.idx + 1)
             IN /\ adGroups' = up.table
                /\ keywords' = st1.keywords
                /\ nextId' = st1.next
                /\ accountsDB' = st1.ctx.db
                /\ issued' = st1.ctx.issued
                /\ faults' = st1.faults
                /\ sync' = [sync EXCEPT
                     !.pc = pc1, !.idx = @ + 1,
                     !.accessToken = st1.ctx.tok,
                     !.adGroupIdMap = st1.adGroupIdMap,
                     !.insertedAdGroups = @ \o up.out,
                     !.adGroupRows = IF call.ok /\ ~STREAM_UPSERTS THEN @ \o agRows ELSE @,
                     !.adGroupAmazonToCampaignAmazon =
                        IF call.ok THEN @ \o [i \in 1..Len(ags) |-> <<ags[i], c>>] ELSE @,
                     !.keywordRows = st1.keywordRows,
                     !.trace.tokenCalls = st1.ctx.tokenCalls,
                     !.trace.listCalls = st1.ctx.listCalls,
                     !.trace.calls = st1.ctx.calls,
                     !.trace.writes = st1.writes,
                     !.trace.kwUpserts = st1.upserts,
                     !.trace.unreadKw = Unread(pc1, kwRep),
                     !.trace.outcome = Outcome(pc1, "completed_stream")]
  /\ UNCHANGED <<now, campaigns, remote, STREAM_UPSERTS, STRICT_ONLY_REPORTS,
                 ROLLING_SCHEDULE, main>>

(* ---------------- syncAccount: the !STREAM_UPSERTS block ---------------- *)
\* for (const [agAmazonId, campaignAmazonId] of adGroupAmazonToCampaignAmazon.entries())
RECURSIVE BatchKeywords(_, _, _)
BatchKeywords(pairs, st, kwFetch) ==
  IF pairs = <<>> THEN st
  ELSE
    LET g == Head(pairs)[1]
        adGroupDbId == MapGet(st.adGroupIdMap, g, NIL)
        campaignDbId == MapGet(sync.campaignIdMap, Head(pairs)[2], NIL)
    IN IF adGroupDbId = NIL THEN BatchKeywords(Tail(pairs), st, kwFetch)
       ELSE
         LET call == ListCall(st.ctx, sync.account, sync.refreshToken, kwFetch[g],
                             "keywords")
             built == KeywordRows(sync.account, KeywordsOfAdGroup[g], campaignDbId,
                                  adGroupDbId, sync.oldKeywords, st.next)
         IN IF ~call.ok
            THEN BatchKeywords(Tail(pairs),
                               [st EXCEPT !.ctx = call.ctx, !.faults = @ + Cost(kwFetch[g])],
                               kwFetch)
            ELSE BatchKeywords(Tail(pairs),
                   [st EXCEPT !.ctx = call.ctx, !.next = built.next,
                              !.faults = @ + Cost(kwFetch[g]),
                              !.keywordRows = @ \o built.rows],
                   kwFetch)

\* batch ad-group upsert with the existing ids attached, then the keyword listings
SyncBatchKeywords ==
  /\ UNCHANGED <<optVars, reportVars, sideVars>>
  /\ sync.pc = "batchKeywords"
  /\ \E agUpsertError \in AllowedErrors(0),
        kwFetch \in [RemoteAdGroupIds(sync.account) -> Allowed(FetchOutcomes, 0)] :
       /\ faults + ErrorCost(agUpsertError) + CostOf(kwFetch) <= MaxFaults
       /\ LET upsertRows ==
                [i \in 1..Len(sync.adGroupRows) |->
                   LET row == sync.adGroupRows[i]
                       existingId == MapGet(sync.existingAdGroupIdMap,
                                            row.amazon_ad_group_id, NIL)
                   IN IF existingId # NIL THEN [id |-> existingId] @@ row ELSE row]
              stored == upsertRows # <<>> /\ ~agUpsertError
              up == IF stored THEN Upsert(adGroups, upsertRows, AdGroupDefaults, nextId)
                    ELSE [table |-> adGroups, out |-> sync.insertedAdGroups, next |-> nextId]
              idMap == MapPutAll(MapPutAll(sync.adGroupIdMap, sync.existingAdGroupIdMap),
                                 IdMapOf(up.out, "amazon_ad_group_id"))
              st0 == [ctx |-> Ctx, next |-> up.next, keywordRows |-> <<>>,
                      adGroupIdMap |-> idMap,
                      faults |-> faults + (IF upsertRows # <<>> THEN ErrorCost(agUpsertError)
                                           ELSE 0)]
              st1 == BatchKeywords(sync.adGroupAmazonToCampaignAmazon, st0, kwFetch)
          IN /\ adGroups' = up.table
             /\ nextId' = st1.next
             /\ accountsDB' = st1.ctx.db
             /\ issued' = st1.ctx.issued
             /\ faults' = st1.faults
             /\ sync' = [sync EXCEPT
                  !.pc = "batchMetrics",
                  !.accessToken = st1.ctx.tok,
                  !.insertedAdGroups = up.out,
                  !.adGroupIdMap = idMap,
                  !.keywordRows = st1.keywordRows,
                  !.trace.tokenCalls = st1.ctx.tokenCalls,
                  !.trace.listCalls = st1.ctx.listCalls,
                  !.trace.calls = st1.ctx.calls,
                  !.trace.writes = @ + (IF stored THEN 1 ELSE 0)]
  /\ UNCHANGED <<now, campaigns, keywords, remote, STREAM_UPSERTS, STRICT_ONLY_REPORTS,
                 ROLLING_SCHEDULE, main>>

RECURSIVE SumOver(_, _, _)
SumOver(m, keys, f) ==
  IF keys = {} THEN 0
  ELSE LET k == CHOOSE x \in keys : TRUE IN m[k][f] + SumOver(m, keys \ {k}, f)

\* an aggregation that would keep the rows without a parent id as a group
AggregateBy_KeepsOrphans(kwMetrics, parent) ==
  LET ids == { kwMetrics[k][parent] : k \in DOMAIN kwMetrics }
  IN [p \in ids |->
        LET ks == { k \in DOMAIN kwMetrics : kwMetrics[k][parent] = p }
            impressions == SumOver(kwMetrics, ks, "impressions")
            clicks == SumOver(kwMetrics, ks, "clicks")
            cost == SumOver(kwMetrics, ks, "cost")
            orders == SumOver(kwMetrics, ks, "orders")
            sales == SumOver(kwMetrics, ks, "sales")
        IN [impressions |-> impressions, clicks |-> clicks, cost |-> cost,
            orders |-> orders, sales |-> sales,
            ctr |-> Ratio(clicks, impressions, 0),
            cpc |-> Ratio(cost, clicks, 0),
            acos |-> Ratio(cost, sales, 0)]]

\* keyword report rows summed per parent id (campaignId or adGroupId); rows
\* without a parent id are skipped
AggregateBy(kwMetrics, parent) ==
  LET ids == { kwMetrics[k][parent] : k \in DOMAIN kwMetrics } \ {"", NULL}
  IN [p \in ids |->
        LET ks == { k \in DOMAIN kwMetrics : kwMetrics[k][parent] = p }
            impressions == SumOver(kwMetrics, ks, "impressions")
            clicks == SumOver(kwMetrics, ks, "clicks")
            cost == SumOver(kwMetrics, ks, "cost")
            orders == SumOver(kwMetrics, ks, "orders")
            sales == SumOver(kwMetrics, ks, "sales")
        IN [impressions |-> impressions, clicks |-> clicks, cost |-> cost,
            orders |-> orders, sales |-> sales,
            ctr |-> Ratio(clicks, impressions, 0),
            cpc |-> Ratio(cost, clicks, 0),
            acos |-> Ratio(cost, sales, 0)]]

\* row.spend = metrics.cost; ... for a keyword row the report covers
EnrichKeywordRow(row, kwMetrics) ==
  IF row.amazon_keyword_id \notin DOMAIN kwMetrics THEN row
  ELSE LET m == kwMetrics[row.amazon_keyword_id]
       IN [ctr |-> Ratio(m.clicks, m.impressions, 0), cpc |-> Ratio(m.cost, m.clicks, 0)] @@
          [row EXCEPT !.spend = m.cost, !.impressions = m.impressions, !.clicks = m.clicks,
                      !.orders = m.orders, !.acos = Ratio(m.cost, m.sales, 0)]

\* the branch the fallback gate takes
FallbackBranch(metrics, kwMetrics, strict) ==
  IF DOMAIN kwMetrics = {} \/ DOMAIN metrics # {} THEN "none"
  ELSE IF strict THEN "strict_skipped"
  ELSE IF DOMAIN AggregateBy(kwMetrics, "campaignId") # {} THEN "aggregated" ELSE "none"

\* the campaign metrics Map after the fallback gate
FallbackMetrics(metrics, kwMetrics, strict) ==
  LET agg == AggregateBy(kwMetrics, "campaignId")
  IN IF DOMAIN metrics = {} /\ ~strict /\ DOMAIN agg # {} THEN agg ELSE metrics

\* updates pushed for the ad groups of the keyword report that have a stored row
AdGroupMetricUpdates(kwMetrics, idMap) ==
  LET aggAg == AggregateBy(kwMetrics, "adGroupId")
      known == SeqOfSet(AdGroupSeq, DOMAIN aggAg \cap DOMAIN idMap)
  IN [i \in 1..Len(known) |->
        LET t == aggAg[known[i]]
        IN [id |-> idMap[known[i]], impressions |-> t.impressions, clicks |-> t.clicks,
            spend |-> t.cost, orders |-> t.orders, ctr |-> t.ctr, cpc |-> t.cpc,
            acos |-> t.acos]]

\* .update({ spend, impressions, clicks, orders, acos, ctr, cpc }).eq("id", dbId)
UpdateCampaignMetrics(table, listed, idMap, metrics) ==
  { IF \E c \in Range(listed) : c \in DOMAIN idMap /\ c \in DOMAIN metrics /\ idMap[c] = r.id
    THEN LET c == CHOOSE x \in Range(listed) :
                     x \in DOMAIN idMap /\ x \in DOMAIN metrics /\ idMap[x] = r.id
             cols == CampaignColumns(metrics[c])
         IN [r EXCEPT !.spend = cols.spend, !.impressions = cols.impressions,
                      !.clicks = cols.clicks, !.orders = cols.orders, !.acos = cols.acos,
                      !.ctr = cols.ctr, !.cpc = cols.cpc]
    ELSE r : r \in table }

\* keyword report, enrichment, fallback aggregation, the batch writes, last_sync
SyncBatchMetrics ==
  /\ UNCHANGED <<optVars, reportVars, sideVars>>
  /\ sync.pc = "batchMetrics"
  /\ \E rep1 \in KeywordReports(sync.account, Days(sync.windowDays)),
        rep2 \in KeywordReports(sync.account, Days(sync.windowDays)),
        refreshOk \in RefreshOutcomes, kwUpsert \in Allowed(KeywordUpsertOutcomes, 0) :
       /\ DOMAIN rep1 # {} => DOMAIN rep2 = {} /\ ~refreshOk
       /\ (SKIP_METRICS \/ sync.keywordRows = <<>>) => DOMAIN rep2 = {} /\ ~refreshOk
       /\ LET a == sync.account
              enrich == ~SKIP_METRICS /\ sync.keywordRows # <<>>
              retry == enrich /\ DOMAIN rep1 = {}
              ctx1 == IF retry
                      THEN RefreshAndUpdateAccessToken(Ctx, a, sync.refreshToken, refreshOk)
                      ELSE Ctx
              kwMetrics == IF ~enrich THEN EmptyMap ELSE IF retry THEN rep2 ELSE rep1
              rows == [i \in 1..Len(sync.keywordRows) |->
                         EnrichKeywordRow(sync.keywordRows[i], kwMetrics)]
              metrics == FallbackMetrics(sync.metricsByCampaignId, kwMetrics,
                                         STRICT_ONLY_REPORTS)
              agUpdates == AdGroupMetricUpdates(kwMetrics, sync.adGroupIdMap)
              kwStored == rows # <<>> /\ kwUpsert \in {"ok", "fk_ok"}
              campUpdate == DOMAIN metrics # {} /\ DOMAIN sync.campaignIdMap # {}
          IN /\ adGroups' = Upsert(adGroups, agUpdates, AdGroupDefaults, 0).table
             /\ keywords' = IF rows # <<>> THEN KeywordUpsert(keywords, rows, kwUpsert)
                            ELSE keywords
             /\ campaigns' = IF campUpdate
                             THEN UpdateCampaignMetrics(campaigns, sync.amazonCampaigns,
                                                        sync.campaignIdMap, metrics)
                             ELSE campaigns
             /\ accountsDB' = [ctx1.db EXCEPT ![a].last_sync = now, ![a].status = "active"]
             /\ issued' = ctx1.issued
             /\ faults' = faults + (IF rows # <<>> THEN Cost(kwUpsert) ELSE 0)
             /\ sync' = [sync EXCEPT
                  !.pc = "returned",
                  !.accessToken = ctx1.tok,
                  !.metricsByCampaignId = metrics,
                  !.keywordRows = rows,
                  !.trace.tokenCalls = ctx1.tokenCalls,
                  !.trace.reportCalls = @ + (IF retry THEN 1 ELSE 0),
                  !.trace.writes = @ + (IF agUpdates # <<>> THEN 1 ELSE 0)
                                     + (IF kwStored THEN 1 ELSE 0)
                                     + (IF campUpdate THEN 1 ELSE 0),
                  !.trace.kwUpserts = IF rows # <<>> THEN Append(@, UpsertRecord(kwUpsert))
                                      ELSE @,
                  !.trace.kwReport = IF ~enrich THEN "unused"
                                     ELSE IF DOMAIN kwMetrics = {} THEN "empty" ELSE "rows",
                  !.trace.unreadKw = IF enrich THEN "none" ELSE Unread("returned", rep1),
                  !.trace.fallback = FallbackBranch(sync.metricsByCampaignId, kwMetrics,
                                                    STRICT_ONLY_REPORTS),
                  !.trace.outcome = "completed"]
  /\ UNCHANGED <<now, nextId, remote, STREAM_UPSERTS, STRICT_ONLY_REPORTS,
                 ROLLING_SCHEDULE, main>>

(* ---------------- main(): the sync driver ---------------- *)
\* due: the windows found due for the account in hand; reauth: the accounts whose
\* proactive refresh failed in this cycle, with the token columns stored then;
\* ran: the syncAccount calls of this cycle, in order; caught: the accounts whose
\* call ended in an exception in this cycle
IdleMain ==
  [pc |-> "load", accounts |-> EmptyMap, todo |-> <<>>, stages |-> <<>>, cycle |-> 0,
   due |-> <<>>, reauth |-> EmptyMap, ran |-> <<>>, caught |-> {}]

TokenColumnsOf(row) ==
  [access_token |-> row.access_token, refresh_token |-> row.refresh_token,
   token_expires_at |-> row.token_expires_at]

\* the windows that are due for an account object, in the order main runs them;
\* the fallback pass when none is; one plain call without the rolling schedule
DueMonthly(account, t) ==
  account.last_30d_sync_at = NIL \/ t - account.last_30d_sync_at >= 30 * DAY_MS

\* the weekly window due only after more than seven days
DueWeekly_After(account, t) ==
  account.last_7d_sync_at = NIL \/ t - account.last_7d_sync_at > 7 * DAY_MS

DueWeekly(account, t) ==
  account.last_7d_sync_at = NIL \/ t - account.last_7d_sync_at >= 7 * DAY_MS

DueDaily(account, t) ==
  account.last_3d_sync_at = NIL \/ t - account.last_3d_sync_at >= 1 * DAY_MS

\* a schedule that would run only the first window found due
Stages_FirstDueOnly(account, t) ==
  IF ROLLING_SCHEDULE
  THEN (IF DueMonthly(account, t) THEN <<"monthly">>
        ELSE IF DueWeekly(account, t) THEN <<"weekly">>
        ELSE IF DueDaily(account, t) THEN <<"daily">> ELSE <<"fallback">>)
  ELSE <<"plain">>

Stages(account, t) ==
  IF ROLLING_SCHEDULE
  THEN LET due == (IF DueMonthly(account, t) THEN <<"monthly">> ELSE <<>>) \o
                  (IF DueWeekly(account, t) THEN <<"weekly">> ELSE <<>>) \o
                  (IF DueDaily(account, t) THEN <<"daily">> ELSE <<>>)
       IN IF due = <<>> THEN <<"fallback">> ELSE due
  ELSE <<"plain">>

\* Number(v || dflt)
NumberOr(v, dflt) == IF v = NIL \/ v = 0 THEN dflt ELSE v

\* the windowDays argument of each call
WindowDays(account, stage) ==
  CASE stage = "monthly" -> NumberOr(account.monthly_window_days, 30)
    [] stage = "weekly" -> NumberOr(account.weekly_window_days, 7)
    [] stage = "daily" -> NumberOr(account.daily_window_days, 3)
    [] stage = "fallback" -> DAYS_WINDOW
    [] OTHER -> NIL

\* a driver that would count the fallback pass as the daily window
StampedRow_FallbackIsDaily(row, stage, t) ==
  CASE stage = "monthly" -> [row EXCEPT !.last_30d_sync_at = t]
    [] stage = "weekly" -> [row EXCEPT !.last_7d_sync_at = t]
    [] stage \in {"daily", "fallback"} -> [row EXCEPT !.last_3d_sync_at = t]
    [] OTHER -> row

\* the timestamp column main sets after the call of a window returned
StampedRow(row, stage, t) ==
  CASE stage = "monthly" -> [row EXCEPT !.last_30d_sync_at = t]
    [] stage = "weekly" -> [row EXCEPT !.last_7d_sync_at = t]
    [] stage = "daily" -> [row EXCEPT !.last_3d_sync_at = t]
    [] OTHER -> row

\* primary keys one run can consume at most
NewIdsBound(a) ==
  LET have == { c.campaign_id : c \in OldCampaigns(a) }
      haveAg == { g.amazon_ad_group_id : g \in { x \in adGroups : x.account_id = a } }
      haveKw == { k.amazon_keyword_id : k \in OldKeywords(a) }
  IN Cardinality(RemoteCampaignIds(a) \ have)
     + Cardinality(IF STREAM_UPSERTS THEN RemoteAdGroupIds(a) ELSE RemoteAdGroupIds(a) \ haveAg)
     + Cardinality(RemoteKeywordIds(a) \ haveKw)

\* const { data: accounts } = await supabase.from("amazon_accounts").select("*")
MainLoad ==
  /\ UNCHANGED <<optVars, reportVars, sideVars>>
  /\ main.pc = "load"
  /\ main' = [main EXCEPT !.pc = "pick", !.accounts = accountsDB, !.todo = AccountSeq]
  /\ UNCHANGED <<now, accountsDB, campaigns, adGroups, keywords, nextId, remote,
                 STREAM_UPSERTS, STRICT_ONLY_REPORTS, ROLLING_SCHEDULE, issued, faults, sync>>

\* the schedule on which the two daemons take turns: a cycle starts between two
\* passes of the optimizer
MainLoadInTurn == opt.pc = "idle" /\ MainLoad

\* for (const account of accounts): the due computation for the next account
MainPick ==
  /\ UNCHANGED <<optVars, reportVars, sideVars>>
  /\ main.pc = "pick"
  /\ main.todo # <<>>
  /\ main' = [main EXCEPT !.pc = "call",
                          !.stages = Stages(main.accounts[Head(main.todo)], now),
                          !.due = Stages(main.accounts[Head(main.todo)], now)]
  /\ UNCHANGED <<now, accountsDB, campaigns, adGroups, keywords, nextId, remote,
                 STREAM_UPSERTS, STRICT_ONLY_REPORTS, ROLLING_SCHEDULE, issued, faults, sync>>

\* await syncAccount(account, <window>): the call
MainSync ==
  /\ UNCHANGED <<optVars, reportVars, sideVars>>
  /\ main.pc = "call"
  /\ sync.pc = "idle"
  /\ nextId + NewIdsBound(Head(main.todo)) <= MaxId + 1
  /\ SyncBegin(main.accounts[Head(main.todo)],
               WindowDays(main.accounts[Head(main.todo)], Head(main.stages)))
  /\ main' = [main EXCEPT !.pc = "await",
                          !.ran = Append(@, [account |-> Head(main.todo),
                                             stage |-> Head(main.stages),
                                             windowDays |-> WindowDays(main.accounts[Head(main.todo)],
                                                                       Head(main.stages))])]
  /\ UNCHANGED <<now, campaigns, adGroups, keywords, nextId, remote,
                 STREAM_UPSERTS, STRICT_ONLY_REPORTS, ROLLING_SCHEDULE>>

\* the call returned: set the window's timestamp, go on with the next window or
\* the next account
MainAfterSync ==
  /\ UNCHANGED <<optVars, reportVars, sideVars>>
  /\ main.pc = "await"
  /\ sync.pc = "returned"
  /\ accountsDB' = [accountsDB EXCEPT ![sync.account] = StampedRow(@, Head(main.stages), now)]
  /\ sync' = IdleSync
  /\ LET failed == IF sync.trace.startRefresh \in {"no_refresh_token", "rejected"}
                   THEN [a \in {sync.account} |-> TokenColumnsOf(accountsDB[a])]
                   ELSE EmptyMap
         m == [main EXCEPT !.reauth = MapPutAll(@, failed)]
     IN main' = IF Tail(main.stages) # <<>>
                THEN [m EXCEPT !.pc = "call", !.stages = Tail(@)]
                ELSE [m EXCEPT !.pc = "pick", !.stages = <<>>, !.due = <<>>, !.todo = Tail(@)]
  /\ UNCHANGED <<now, campaigns, adGroups, keywords, nextId, remote,
                 STREAM_UPSERTS, STRICT_ONLY_REPORTS, ROLLING_SCHEDULE, issued, faults>>

\* a catch that would give up the cycle
AfterThrow_EndsCycle(m) ==
  [m EXCEPT !.pc = "pick", !.stages = <<>>, !.due = <<>>, !.todo = <<>>,
            !.caught = @ \cup {Head(m.todo)}]

\* catch (e) { console.error(...) }: on with the next account
AfterThrow(m) ==
  [m EXCEPT !.pc = "pick", !.stages = <<>>, !.due = <<>>, !.todo = Tail(@),
            !.caught = @ \cup {Head(m.todo)}]

\* await syncAccount(account, <window>) for an account with a usable token and a
\* profile id, where the fetch of the campaign listing rejects (the network is
\* down): syncAccount has read the old rows and written nothing, the exception
\* leaves it and is caught in main()
MainSyncThrows ==
  /\ UNCHANGED <<optVars, reportVars, sideVars>>
  /\ main.pc = "call"
  /\ sync.pc = "idle"
  /\ faults < MaxFaults
  /\ ~NeedsRefresh(main.accounts[Head(main.todo)], now)
  /\ main.accounts[Head(main.todo)].amazon_profile_id # NULL
  /\ faults' = faults + 1
  /\ main' = AfterThrow([main EXCEPT !.ran =
                Append(@, [account |-> Head(main.todo), stage |-> Head(main.stages),
                           windowDays |-> WindowDays(main.accounts[Head(main.todo)],
                                                     Head(main.stages))])])
  /\ UNCHANGED <<now, accountsDB, campaigns, adGroups, keywords, nextId, remote,
                 STREAM_UPSERTS, STRICT_ONLY_REPORTS, ROLLING_SCHEDULE, issued, sync>>

\* the cycle is over: sleep SYNC_LOOP_MIN minutes, then the next cycle
MainSleep ==
  /\ UNCHANGED <<optVars, reportVars, sideVars>>
  /\ main.pc = "pick"
  /\ main.todo = <<>>
  /\ main.cycle < MaxCycle
  /\ now' = now + SYNC_LOOP_MIN
  /\ main' = [IdleMain EXCEPT !.cycle = main.cycle + 1]
  /\ UNCHANGED <<accountsDB, campaigns, adGroups, keywords, nextId, remote,
                 STREAM_UPSERTS, STRICT_ONLY_REPORTS, ROLLING_SCHEDULE, issued, faults, sync>>

(* ---------------- edge function fetch-amazon-data ---------------- *)
ZeroTraffic == [impressions |-> 0, clicks |-> 0, cost |-> 0, orders |-> 0, sales |-> 0]

\* one element of campaignsToInsert of the handler
EdgeCampaignRow(a, c, metrics) ==
  LET cols == CampaignColumns(MapGet(metrics, c, ZeroTraffic))
  IN [account_id |-> a, campaign_id |-> c, spend |-> cols.spend,
      impressions |-> cols.impressions, clicks |-> cols.clicks, orders |-> cols.orders,
      acos |-> cols.acos, ctr |-> cols.ctr, cpc |-> cols.cpc]

\* one element of keywordRows of the handler, enriched when the report covers it
EdgeKeywordRow(kw, campaignDbId, adGroupDbId, kwMetrics) ==
  LET m == MapGet(kwMetrics, kw, ZeroTraffic)
  IN [campaign_id |-> campaignDbId, keyword_id |-> kw, bid |-> remoteKeyword[kw].bid,
      status |-> remoteKeyword[kw].state, spend |-> m.cost, impressions |-> m.impressions,
      clicks |-> m.clicks, orders |-> m.orders, acos |-> Ratio(m.cost, m.sales, 0),
      ad_group_id |-> adGroupDbId, amazon_keyword_id |-> kw]

\* the [ad group, campaign] pairs of the ad-group listings that were answered
EdgeAdGroupPairs(listed, campaignIdMap, agFetch) ==
  FlattenSeq([i \in 1..Len(listed) |->
    LET c == listed[i]
    IN IF c \in DOMAIN campaignIdMap /\ agFetch[c] = "ok"
       THEN [j \in 1..Len(AdGroupsOfCampaign[c]) |-> <<AdGroupsOfCampaign[c][j], c>>]
       ELSE <<>>])

EdgeAdGroupRows(a, pairs, campaignIdMap) ==
  [i \in 1..Len(pairs) |->
     [account_id |-> a, campaign_id |-> campaignIdMap[pairs[i][2]],
      amazon_ad_group_id |-> pairs[i][1]]]

\* the keyword rows of the keyword listings that were answered
EdgeKeywordRows(pairs, campaignIdMap, adGroupIdMap, kwFetch, kwRep) ==
  FlattenSeq([i \in 1..Len(pairs) |->
    LET g == pairs[i][1]
        c == pairs[i][2]
    IN IF g \in DOMAIN adGroupIdMap /\ kwFetch[g] = "ok"
       THEN [j \in 1..Len(KeywordsOfAdGroup[g]) |->
               EdgeKeywordRow(KeywordsOfAdGroup[g][j], campaignIdMap[c], adGroupIdMap[g],
                              kwRep)]
       ELSE <<>>])

\* .insert(rows).select(): nothing is written when there is no row or on an error
EdgeInsert(table, rows, dflt, next, error) ==
  IF rows # <<>> /\ ~error THEN Upsert(table, rows, dflt, next)
  ELSE [table |-> table, out |-> <<>>, next |-> next]

\* step 3 of the handler: delete old data for this account
EdgeDelete(a) ==
  [campaigns |-> campaigns \ CampaignsOf(campaigns, a),
   adGroups |-> adGroups \ AdGroupsOf(adGroups, a),
   keywords |-> keywords \ KeywordsOf(keywords, campaigns, a)]

\* steps 6 to 8 of the handler, once the campaigns are inserted
EdgeStructure(a, db, empty, upC, kwRep, agFetch, agError, kwFetch, kwError) ==
  LET campaignIdMap == IdMapOf(upC.out, "campaign_id")
      pairs == EdgeAdGroupPairs(remote[a], campaignIdMap, agFetch)
      upG == EdgeInsert(empty.adGroups, EdgeAdGroupRows(a, pairs, campaignIdMap),
                        AdGroupDefaults, upC.next, agError)
      upK == EdgeInsert(empty.keywords,
                        EdgeKeywordRows(pairs, campaignIdMap,
                                        IdMapOf(upG.out, "amazon_ad_group_id"), kwFetch, kwRep),
                        KeywordDefaults, upG.next, kwError)
  IN [campaigns |-> upC.table, adGroups |-> upG.table, keywords |-> upK.table,
      next |-> upK.next,
      db |-> [db EXCEPT ![a].last_sync = now, ![a].status = "active"]]

\* steps 3 to 8 of the handler: delete the account's rows, list, insert
EdgeRebuild(a, db, fetch, rep, kwRep, campError, agFetch, agError, kwFetch, kwError) ==
  LET empty == EdgeDelete(a)
      rows == [i \in 1..Len(remote[a]) |-> EdgeCampaignRow(a, remote[a][i], rep)]
      stop == [campaigns |-> empty.campaigns, adGroups |-> empty.adGroups,
               keywords |-> empty.keywords, next |-> nextId,
               db |-> IF fetch = "r401" THEN [db EXCEPT ![a] = ReauthRow(@)] ELSE db]
  IN IF fetch # "ok" \/ (rows # <<>> /\ campError) THEN stop
     ELSE EdgeStructure(a, db, empty,
                        EdgeInsert(empty.campaigns, rows, CampaignDefaults, nextId, FALSE),
                        kwRep, agFetch, agError, kwFetch, kwError)

\* POST fetch-amazon-data { account_id }: the whole handler, served while the
\* daemon is between two cycles
FetchAmazonData ==
  /\ UNCHANGED <<optVars, reportVars, sideVars>>
  /\ main.pc = "load"
  /\ sync.pc = "idle"
  /\ \E a \in { x \in Accounts : accountsDB[x].amazon_profile_id # NULL } :
     \E refreshOk \in RefreshOutcomes, fetch \in Allowed({"ok", "r401", "fail"}, 0),
        rep \in CampaignReports(a, DAYS_WINDOW), kwRep \in KeywordReports(a, DAYS_WINDOW),
        campError \in AllowedErrors(0), agError \in AllowedErrors(0),
        kwError \in AllowedErrors(0),
        agFetch \in [RemoteCampaignIds(a) -> Allowed({"ok", "fail"}, 0)],
        kwFetch \in [RemoteAdGroupIds(a) -> Allowed({"ok", "fail"}, 0)] :
       LET account == accountsDB[a]
           needs == NeedsRefresh(account, now)
           cost == Cost(fetch) + ErrorCost(campError) + ErrorCost(agError)
                   + ErrorCost(kwError) + CostOf(agFetch) + CostOf(kwFetch)
           db1 == IF needs
                  THEN [accountsDB EXCEPT ![a] =
                          RefreshedAccountRow(@, issued + 1, account.refresh_token, now)]
                  ELSE accountsDB
           out == EdgeRebuild(a, db1, fetch, rep, kwRep, campError, agFetch, agError,
                              kwFetch, kwError)
       IN /\ faults + cost <= MaxFaults
          /\ nextId + Cardinality(RemoteCampaignIds(a)) + Cardinality(RemoteAdGroupIds(a))
                + Cardinality(RemoteKeywordIds(a)) <= MaxId + 1
          /\ IF needs /\ (account.refresh_token = NULL \/ ~refreshOk)
             THEN /\ accountsDB' = [accountsDB EXCEPT ![a] = ReauthRow(@)]
                  /\ cost = 0
                  /\ UNCHANGED <<campaigns, adGroups, keywords, nextId, issued, faults>>
             ELSE /\ needs \/ ~refreshOk
                  /\ accountsDB' = out.db
                  /\ campaigns' = out.campaigns
                  /\ adGroups' = out.adGroups
                  /\ keywords' = out.keywords
                  /\ nextId' = out.next
                  /\ issued' = IF needs THEN issued + 1 ELSE issued
                  /\ faults' = faults + cost
  /\ UNCHANGED <<now, remote, STREAM_UPSERTS, STRICT_ONLY_REPORTS, ROLLING_SCHEDULE, main,
                 sync>>

(* ---------------- the advertiser ---------------- *)
\* between two cycles the advertiser may delete the last campaign of an account
AdvertiserDeletes ==
  /\ UNCHANGED <<optVars, reportVars, sideVars>>
  /\ main.pc = "load"
  /\ main.cycle > MaxCycle - 1
  /\ \E a \in Accounts :
       /\ Len(remote[a]) > 1
       /\ remote' = [remote EXCEPT ![a] = SubSeq(@, 1, Len(@) - 1)]
  /\ UNCHANGED <<now, accountsDB, campaigns, adGroups, keywords, nextId,
                 STREAM_UPSERTS, STRICT_ONLY_REPORTS, ROLLING_SCHEDULE, issued, faults, main,
                 sync>>

(* ---------------- optimizer: metrics and rule evaluation ---------------- *)
CHECK_INTERVAL_MINUTES == 15
DEFAULT_MIN_BID == 2              \* actionConf.min_bid ?? 0.02
DEFAULT_MAX_BID == 1000           \* actionConf.max_bid ?? 10.0

Min(x, y) == IF x <= y THEN x ELSE y
Max(x, y) == IF x >= y THEN x ELSE y
Abs(x) == IF x < 0 THEN 0 - x ELSE x

\* Math.abs(t1 - t2), in minutes
hoursBetween(a, b) == Abs(a - b)

\* metrics from DB row; ctr and cpc are computed, every other name is a column
getMetricValue(row, metric) ==
  CASE metric = "spend" -> row.spend
    [] metric = "impressions" -> row.impressions
    [] metric = "clicks" -> row.clicks
    [] metric = "orders" -> row.orders
    [] metric = "acos" -> row.acos
    [] metric = "ctr" -> Ratio(row.clicks, row.impressions, 0)
    [] metric = "cpc" -> Ratio(row.spend, row.clicks, 0)
    [] OTHER -> IF metric \in DOMAIN row THEN row[metric] ELSE 0

compareMetric(value, op, target) ==
  LET t == IF target = NIL THEN 0 ELSE target
  IN CASE op \in {"greater_than", ">"} -> value > t
       [] op \in {"less_than", "<"} -> value < t
       [] op \in {"greater_or_equal", ">="} -> value >= t
       [] op \in {"less_or_equal", "<="} -> value <= t
       [] op \in {"equals", "==", "="} -> value = t
       [] OTHER -> FALSE

\* the cooldown of a rule in minutes: frequency_days, else frequency_hours, else a day
FreqMinutes(settings) ==
  IF settings.frequency_days # NIL THEN settings.frequency_days * DAY_MS
  ELSE IF settings.frequency_hours # NIL THEN settings.frequency_hours * 60
  ELSE DAY_MS

\* a check that would read frequency_days as a number of hours
ruleDue_DaysAsHours(rule, t) ==
  \/ FreqMinutes(rule.settings) <= 0
  \/ rule.last_run = NIL
  \/ hoursBetween(rule.last_run, t) >= FreqMinutes(rule.settings) \div 24

ruleDue(rule, t) ==
  \/ FreqMinutes(rule.settings) <= 0
  \/ rule.last_run = NIL
  \/ hoursBetween(rule.last_run, t) >= FreqMinutes(rule.settings)

filterKeywordsByScope(kws, scope) ==
  IF scope.type = "ALL" THEN kws
  ELSE IF scope.type = "CAMPAIGNS" /\ scope.campaign_ids # {}
  THEN { k \in kws : k.campaign_id # NIL /\ k.campaign_id \in scope.campaign_ids }
  ELSE IF scope.type = "KEYWORDS" /\ scope.keyword_ids # {}
  THEN { k \in kws : k.id # NIL /\ k.id \in scope.keyword_ids }
  ELSE kws

\* a loop that would stop after the first condition
EvalConditions_FirstOnly(kw, conditions, snapshot) ==
  IF conditions = <<>> THEN [allMatch |-> TRUE, snapshot |-> snapshot]
  ELSE LET cond == Head(conditions)
           val == getMetricValue(kw, cond.metric)
       IN [allMatch |-> compareMetric(val, cond.comparison, cond.value),
           snapshot |-> MapPutAll(snapshot, [m \in {cond.metric} |-> val])]

\* the inner loop over the conditions: the metrics read up to and including the
\* first condition that fails, and whether all of them held
RECURSIVE EvalConditions(_, _, _)
EvalConditions(kw, conditions, snapshot) ==
  IF conditions = <<>> THEN [allMatch |-> TRUE, snapshot |-> snapshot]
  ELSE LET cond == Head(conditions)
           val == getMetricValue(kw, cond.metric)
           snap == MapPutAll(snapshot, [m \in {cond.metric} |-> val])
       IN IF compareMetric(val, cond.comparison, cond.value)
          THEN EvalConditions(kw, Tail(conditions), snap)
          ELSE [allMatch |-> FALSE, snapshot |-> snap]

\* a condition entry that is not an object: null in the stored JSON
NullCondition == [null |-> TRUE]

IsNull(cond) == "null" \in DOMAIN cond

\* the inner loop reaches an entry that is null and reads cond.metric of it: a
\* TypeError; entries after the first condition that fails are never read
RECURSIVE EvalThrows(_, _)
EvalThrows(kw, conditions) ==
  IF conditions = <<>> THEN FALSE
  ELSE LET cond == Head(conditions)
       IN IF IsNull(cond) THEN TRUE
          ELSE IF compareMetric(getMetricValue(kw, cond.metric), cond.comparison, cond.value)
          THEN EvalThrows(kw, Tail(conditions))
          ELSE FALSE

\* Map UI action to low-level API type
ApiType(uiAction) ==
  IF uiAction = "pause_keyword" THEN "pause"
  ELSE IF uiAction \in {"decrease_bid", "increase_bid"} THEN "adjust_bid_percentage"
  ELSE uiAction

\* Number(actionConf.value ?? settings.action_value ?? 0) || 0
RawPct(settings) ==
  IF settings.action.value # NIL THEN settings.action.value
  ELSE IF settings.action_value # NIL THEN settings.action_value
  ELSE 0

Pct(uiAction, rawPct) ==
  IF uiAction = "decrease_bid" THEN 0 - Abs(rawPct)
  ELSE IF uiAction = "increase_bid" THEN Abs(rawPct)
  ELSE rawPct

MinBid(actionConf) == IF actionConf.min_bid # NIL THEN actionConf.min_bid ELSE DEFAULT_MIN_BID
MaxBid(actionConf) == IF actionConf.max_bid # NIL THEN actionConf.max_bid ELSE DEFAULT_MAX_BID

\* currentBid * (1 + pct / 100), in hundredths of a cent
RawBid(currentBid, pct) == currentBid * (100 + pct)

\* Number(raw.toFixed(2)): the nearest cent; a value half way between two cents
\* goes to the one the floating point product happens to lie nearer to
ToFixed2(raw, up) ==
  LET q == raw \div 100
      r == raw % 100
  IN IF r < 50 THEN q ELSE IF r > 50 THEN q + 1 ELSE IF up THEN q + 1 ELSE q

IsTie(raw) == raw % 100 = 50

\* the lower bound alone
Clamp_NoUpperBound(minBid, maxBid, v) == Max(minBid, v)

\* newBid = Math.min(maxBid, Math.max(minBid, Number(raw.toFixed(2))))
Clamp(minBid, maxBid, v) == Min(maxBid, Max(minBid, v))

NewBid(currentBid, settings, up) ==
  LET uiAction == settings.action.type
  IN IF ApiType(uiAction) = "adjust_bid_percentage"
     THEN Clamp(MinBid(settings.action), MaxBid(settings.action),
                ToFixed2(RawBid(currentBid, Pct(uiAction, RawPct(settings))), up))
     ELSE currentBid

\* the action built for one keyword that matched
ActionOf(kw, settings, snapshot, up) ==
  [type |-> ApiType(settings.action.type), logAction |-> settings.action.type,
   keywordAmazonId |-> kw.keyword_id, keywordRowId |-> kw.id, campaignId |-> kw.campaign_id,
   currentBid |-> kw.bid, newBid |-> NewBid(kw.bid, settings, up),
   metricsSnapshot |-> snapshot]

\* rows in the order the store returns them: by primary key
RECURSIVE RowSeq(_)
RowSeq(rows) ==
  IF rows = {} THEN <<>>
  ELSE LET first == CHOOSE r \in rows : \A o \in rows : r.id <= o.id
       IN <<first>> \o RowSeq(rows \ {first})

RECURSIVE ActionsFor(_, _, _)
ActionsFor(kwSeq, settings, ups) ==
  IF kwSeq = <<>> THEN <<>>
  ELSE LET kw == Head(kwSeq)
           ev == EvalConditions(kw, settings.conditions, EmptyMap)
           rest == ActionsFor(Tail(kwSeq), settings, ups)
       IN IF ev.allMatch
          THEN <<ActionOf(kw, settings, ev.snapshot, kw.keyword_id \in ups)>> \o rest
          ELSE rest

\* Build actions for one rule and a list of keywords; ups are the keywords whose
\* half-way bid is rounded upwards
buildActionsForRule(rule, keywordsForAccount, ups) ==
  IF rule.settings.entity # "keyword" THEN <<>>
  ELSE ActionsFor(RowSeq(filterKeywordsByScope(keywordsForAccount, rule.settings.scope)),
                  rule.settings, ups)

\* buildActionsForRule throws: the loop over the scoped keywords comes to one
\* whose conditions lead to a null entry
BuildThrows(rule, keywordsForAccount) ==
  /\ rule.settings.entity = "keyword"
  /\ \E kw \in filterKeywordsByScope(keywordsForAccount, rule.settings.scope) :
       EvalThrows(kw, rule.settings.conditions)

\* a call of buildActionsForRule on its own: nothing called yet
IdleBuild == [pc |-> "idle", rule |-> EmptyMap, keywordsForAccount |-> {}, actions |-> <<>>]

\* withRetry: let delay = 500; for (let attempt = 1; attempt <= 3; attempt++)
RetryAttempts == 3
FirstDelay == 500

\* one call of putJson: the attempt of withRetry in hand, the delay of the next
\* sleep, the PUTs sent and the refreshes asked for so far, the sleeps taken and,
\* per attempt, the answers it got
IdlePut ==
  [pc |-> "idle", attempt |-> 1, delay |-> FirstDelay, sends |-> 0, refreshes |-> 0,
   waits |-> <<>>, log |-> <<>>]

\* an applyAmazonUpdates call: none made yet
IdleApply == [pc |-> "idle", puts |-> <<>>, put |-> IdlePut]

(* ---------------- optimizer: sending and logging ---------------- *)
MaxPass == 2        \* optimizer passes in one behaviour

RuleSeq == <<"r1", "r2">>

\* what one accepted PUT /v2/sp/keywords/{id} changes on the remote platform
ApplyPut(rk, a) ==
  IF a.type = "pause" THEN [rk EXCEPT ![a.keywordAmazonId].state = "paused"]
  ELSE IF a.type = "adjust_bid_percentage" THEN [rk EXCEPT ![a.keywordAmazonId].bid = a.newBid]
  ELSE rk

\* one PUT per action; the requests for the keywords in failed do not get through
RECURSIVE sendBidAdjustments(_, _, _)
sendBidAdjustments(rk, actions, failed) ==
  IF actions = <<>> THEN [remote |-> rk, results |-> EmptyMap]
  ELSE LET a == Head(actions)
           ok == a.keywordAmazonId \notin failed
           rest == sendBidAdjustments(IF ok THEN ApplyPut(rk, a) ELSE rk, Tail(actions), failed)
       IN [remote |-> rest.remote,
           results |-> MapPutAll([k \in {a.keywordAmazonId} |-> IF ok THEN 200 ELSE 0],
                                 rest.results)]

\* the optimization_logs row of one action
LogRow(account, rule, a, results, t) ==
  [user_id |-> account.user_id, campaign_id |-> a.campaignId, keyword_id |-> a.keywordRowId,
   action |-> a.logAction, rule_id |-> rule.id, amazon_account_id |-> account.id,
   entity_type |-> "keyword", entity_id |-> a.keywordAmazonId,
   metrics_snapshot |-> a.metricsSnapshot, api_type |-> a.type,
   current_bid |-> a.currentBid, new_bid |-> a.newBid,
   api_status |-> MapGet(results, a.keywordAmazonId, 0), created_at |-> t]

logActions(account, rule, actions, results, t) ==
  [i \in 1..Len(actions) |-> LogRow(account, rule, actions[i], results, t)]

\* the keywords of a rule evaluation whose new bid lies half way between two cents
TieKeywords(rule, kws) ==
  IF ApiType(rule.settings.action.type) # "adjust_bid_percentage" THEN {}
  ELSE { k.keyword_id : k \in { x \in kws :
           IsTie(RawBid(x.bid, Pct(rule.settings.action.type, RawPct(rule.settings)))) } }

\* buildActionsForRule(rule, account, keywordsForAccount)
BuildActions ==
  /\ evaluation.pc = "call"
  /\ \E ups \in SUBSET TieKeywords(evaluation.rule, evaluation.keywordsForAccount) :
       evaluation' = [evaluation EXCEPT !.pc = "done",
                              !.actions = buildActionsForRule(evaluation.rule,
                                                              evaluation.keywordsForAccount, ups)]
  /\ UNCHANGED <<syncVars, optVars, reportVars, apply>>

(* ---------------- optimizer: main() and processAccount ---------------- *)
NoOptTrace == [account |-> NULL, at |-> NIL, given |-> EmptyMap, startRefresh |-> "none",
               tokenCalls |-> 0, usedToken |-> NIL, sends |-> 0, executed |-> 0,
               skipped |-> 0, midSync |-> FALSE,
               thrown |-> 0]     \* the rules whose evaluation threw

IdleOpt ==
  [pc |-> "idle", pass |-> 0, rules |-> <<>>, accounts |-> <<>>, account |-> EmptyMap,
   rulesForUser |-> <<>>, accessToken |-> NIL, keywordsForAccount |-> {},
   trace |-> NoOptTrace,
   loaded |-> <<>>,      \* the accounts of this pass
   done |-> <<>>]        \* the accounts processAccount was called for in this pass

\* .from('optimization_rules').select('*').eq('enabled', true)
loadActiveRules ==
  LET ids == SelectSeq(RuleSeq, LAMBDA r : r \in DOMAIN rulesDB /\ rulesDB[r].enabled)
  IN [i \in 1..Len(ids) |-> rulesDB[ids[i]]]

\* .from('amazon_accounts').select('*').eq('status', 'active')
loadAccounts ==
  LET ids == SelectSeq(AccountSeq, LAMBDA a : accountsDB[a].status = "active")
  IN [i \in 1..Len(ids) |-> accountsDB[ids[i]]]

\* rulesByUser.get(account.user_id) || []
RulesOfUser(rules, user) ==
  SelectSeq(rules, LAMBDA r : r.user_id # NULL /\ r.user_id = user)

\* main(): both tables are read once, at the start of the pass
OptMain ==
  /\ UNCHANGED <<reportVars, sideVars>>
  /\ opt.pc = "idle"
  /\ opt.pass < MaxPass
  /\ opt' = [opt EXCEPT !.pc = "accounts", !.rules = loadActiveRules,
                        !.accounts = IF loadActiveRules = <<>> THEN <<>> ELSE loadAccounts,
                        !.loaded = IF loadActiveRules = <<>> THEN <<>>
                                   ELSE [i \in DOMAIN loadAccounts |-> loadAccounts[i].id],
                        !.trace = NoOptTrace]
  /\ UNCHANGED <<syncVars, remoteKeyword, rulesDB, optimization_logs>>

\* the schedule on which the two daemons take turns: a pass starts between two
\* cycles of the sync daemon
OptMainInTurn == main.pc = "load" /\ sync.pc = "idle" /\ OptMain

\* processAccount up to the rule loop: the token check, then the campaigns and
\* the keywords of the account as stored
OptAccount ==
  /\ UNCHANGED <<reportVars, sideVars>>
  /\ opt.pc = "accounts"
  /\ opt.accounts # <<>>
  /\ \E refreshOk \in RefreshOutcomes :
       LET account == Head(opt.accounts)
           a == account.id
           r == RulesOfUser(opt.rules, account.user_id)
           needs == NeedsRefresh(account, now)
           skip == [opt EXCEPT !.accounts = Tail(@), !.done = Append(@, a)]
           tr == [NoOptTrace EXCEPT !.account = a, !.at = now, !.given = account]
           \* a syncAccount run on the same account has written and has not returned
           midSync == /\ sync.pc \notin {"idle", "returned"}
                      /\ sync.account = a
                      /\ sync.trace.writes > 0
           kws == KeywordsOf(keywords, campaigns, a)
       IN IF r = <<>>
          THEN /\ opt' = [opt EXCEPT !.accounts = Tail(@)]
               /\ UNCHANGED <<accountsDB, issued>>
          ELSE IF needs /\ account.refresh_token = NULL
          THEN /\ accountsDB' = [accountsDB EXCEPT ![a] = ReauthRow(@)]
               /\ issued' = issued
               /\ opt' = [skip EXCEPT !.trace = [tr EXCEPT !.startRefresh = "no_refresh_token"]]
          ELSE IF needs /\ ~refreshOk
          THEN /\ accountsDB' = [accountsDB EXCEPT ![a] = ReauthRow(@)]
               /\ issued' = issued
               /\ opt' = [skip EXCEPT !.trace = [tr EXCEPT !.startRefresh = "rejected",
                                                            !.tokenCalls = 1]]
          ELSE LET tok == IF needs THEN issued + 1 ELSE account.access_token
                   tr1 == [tr EXCEPT !.startRefresh = IF needs THEN "refreshed" ELSE "none",
                                     !.tokenCalls = IF needs THEN 1 ELSE 0,
                                     !.usedToken = tok, !.midSync = midSync]
               IN /\ accountsDB' = IF needs
                                   THEN [accountsDB EXCEPT ![a] =
                                           RefreshedAccountRow(@, tok, account.refresh_token, now)]
                                   ELSE accountsDB
                  /\ issued' = IF needs THEN issued + 1 ELSE issued
                  /\ opt' = IF CampaignsOf(campaigns, a) = {} \/ kws = {}
                            THEN [skip EXCEPT !.trace = tr1]
                            ELSE [opt EXCEPT !.pc = "rules", !.account = account,
                                             !.done = Append(@, a),
                                             !.rulesForUser = r, !.accessToken = tok,
                                             !.keywordsForAccount = kws, !.trace = tr1]
  /\ UNCHANGED <<now, campaigns, adGroups, keywords, nextId, remote, STREAM_UPSERTS,
                 STRICT_ONLY_REPORTS, ROLLING_SCHEDULE, faults, main, sync,
                 remoteKeyword, rulesDB, optimization_logs>>

\* .update({ last_run: nowIso() }).eq('id', rule.id)
TouchRule(db, id, t) == IF id \in DOMAIN db THEN [db EXCEPT ![id].last_run = t] ELSE db

\* a loop that would leave last_run alone when the rule produced no action
LastRunAfter_OnlyWithActions(db, rule, actions, t) ==
  IF actions = <<>> THEN db ELSE TouchRule(db, rule.id, t)

\* both ways out of an evaluation, with actions and without, update last_run
LastRunAfter(db, rule, actions, t) == TouchRule(db, rule.id, t)

\* the position after one iteration of the rule loop
AfterRule(o) ==
  IF Tail(o.rulesForUser) = <<>>
  THEN [o EXCEPT !.pc = "accounts", !.rulesForUser = <<>>, !.accounts = Tail(@),
                 !.account = EmptyMap, !.accessToken = NIL, !.keywordsForAccount = {}]
  ELSE [o EXCEPT !.rulesForUser = Tail(@)]

\* an exception in the rule loop leaves processAccount; main() logs it and goes
\* on with the next account
AfterRuleThrows(o) ==
  [o EXCEPT !.pc = "accounts", !.rulesForUser = <<>>, !.accounts = Tail(@),
            !.account = EmptyMap, !.accessToken = NIL, !.keywordsForAccount = {},
            !.trace.thrown = @ + 1]

\* one iteration of for (const rule of rulesForUser)
OptRule ==
  /\ UNCHANGED <<reportVars, sideVars>>
  /\ opt.pc = "rules"
  /\ LET rule == Head(opt.rulesForUser)
     IN IF ~ruleDue(rule, now)
        THEN /\ opt' = [AfterRule(opt) EXCEPT !.trace.skipped = @ + 1]
             /\ UNCHANGED <<remoteKeyword, rulesDB, optimization_logs, faults>>
        ELSE IF BuildThrows(rule, opt.keywordsForAccount)
        THEN /\ opt' = AfterRuleThrows(opt)
             /\ UNCHANGED <<remoteKeyword, rulesDB, optimization_logs, faults>>
        ELSE \E ups \in SUBSET TieKeywords(rule, opt.keywordsForAccount) :
               LET actions == buildActionsForRule(rule, opt.keywordsForAccount, ups)
                   targets == { actions[i].keywordAmazonId : i \in DOMAIN actions }
               IN \E failed \in SUBSET targets :
                    /\ faults + Cardinality(failed) <= MaxFaults
                    /\ LET sent == sendBidAdjustments(remoteKeyword, actions, failed)
                       IN /\ remoteKeyword' = sent.remote
                          /\ optimization_logs' = optimization_logs \o
                               logActions(opt.account, rule, actions, sent.results, now)
                          /\ rulesDB' = LastRunAfter(rulesDB, rule, actions, now)
                          /\ faults' = faults + Cardinality(failed)
                          /\ opt' = [AfterRule(opt) EXCEPT
                                       !.trace.sends = @ + Len(actions),
                                       !.trace.executed = @ + 1]
  /\ UNCHANGED <<now, accountsDB, campaigns, adGroups, keywords, nextId, remote,
                 STREAM_UPSERTS, STRICT_ONLY_REPORTS, ROLLING_SCHEDULE, issued, main, sync>>

\* the pass is over; the process manager starts the next one a quarter of an
\* hour or a day later
OptFinish ==
  /\ UNCHANGED <<reportVars, sideVars>>
  /\ opt.pc = "accounts"
  /\ opt.accounts = <<>>
  /\ \E dt \in {CHECK_INTERVAL_MINUTES, DAY_MS} : now' = now + dt
  /\ opt' = [IdleOpt EXCEPT !.pass = opt.pass + 1]
  /\ UNCHANGED <<accountsDB, campaigns, adGroups, keywords, nextId, remote,
                 STREAM_UPSERTS, STRICT_ONLY_REPORTS, ROLLING_SCHEDULE, issued, faults, main,
                 sync, remoteKeyword, rulesDB, optimization_logs>>

(* ---------------- server: POST /amazon/update ---------------- *)
MaxApply == 1       \* update requests of the dashboard in one behaviour

\* the answers to the PUT of putJson under withRetry: accepted, refused, 503 and
\* then accepted, 503 three times, and 401 followed by a refresh that is refused
\* or by a second PUT that is accepted or refused
PutOutcomes == {"ok", "refused", "busy_ok", "busy", "r401_ok", "r401_refused", "r401_norefresh"}

PutSends(put) ==
  CASE put \in {"ok", "refused", "r401_norefresh"} -> 1
    [] put \in {"busy_ok", "r401_ok", "r401_refused"} -> 2
    [] put = "busy" -> 3

PutAccepted(put) == put \in {"ok", "busy_ok", "r401_ok"}

\* .from('amazon_keywords').update({ bid }).eq('amazon_keyword_id', amazonId)
UpdateKeywordBid(rows, amazonId, value) ==
  { IF k.amazon_keyword_id = amazonId THEN [k EXCEPT !.bid = value] ELSE k : k \in rows }

\* applyAmazonUpdates({ accountId, type: 'keyword', items: [{ amazonId, value }] });
\* puts: the requests that came to their PUT, with the number of PUTs sent and
\* the access token of the last one
ApplyAmazonUpdates ==
  /\ apply.pc = "idle"
  /\ Len(apply.puts) < MaxApply
  /\ \E accountId \in Accounts, amazonId \in {"k1"}, value \in {25},
        refreshOk \in BOOLEAN, put \in PutOutcomes :
       LET account == accountsDB[accountId]
           again == put \in {"r401_ok", "r401_refused"}
           tokens == IF again THEN 2 ELSE 1
       IN IF account.refresh_token = NULL \/ account.amazon_profile_id = NULL \/ ~refreshOk
          THEN /\ put = "ok"
               /\ UNCHANGED <<accountsDB, issued, remoteKeyword, keywords, apply>>
          ELSE /\ accountsDB' = [accountsDB EXCEPT ![accountId] =
                                   RefreshedAccountRow(@, issued + tokens,
                                                       account.refresh_token, now)]
               /\ issued' = issued + tokens
               /\ remoteKeyword' = IF PutAccepted(put)
                                    THEN [remoteKeyword EXCEPT ![amazonId].bid = value]
                                    ELSE remoteKeyword
               /\ keywords' = IF PutAccepted(put)
                               THEN UpdateKeywordBid(keywords, amazonId, value)
                               ELSE keywords
               /\ apply' = [apply EXCEPT !.puts =
                              Append(@, [accountId |-> accountId, amazonId |-> amazonId,
                                         value |-> value, sends |-> PutSends(put),
                                         accepted |-> PutAccepted(put),
                                         token |-> issued + tokens])]
  /\ UNCHANGED <<now, campaigns, adGroups, nextId, remote, STREAM_UPSERTS,
                 STRICT_ONLY_REPORTS, ROLLING_SCHEDULE, faults, main, sync, rulesDB,
                 optimization_logs, opt, reportVars, evaluation>>

\* the answers to a PUT: a status, or a rejected fetch whose message names the
\* cause (ECONNRESET, ETIMEDOUT, ...) or does not ("fetch failed")
PutStatuses == {"200", "400", "401", "429", "500", "503", "net_named", "net_plain"}

\* the answers of the token endpoint to ensureToken
RefreshAnswers == {"ok", "400", "503"}

\* a withRetry that would try again after every error
Retriable_Always(err) == TRUE

\* /goaway|server_shutting_down|http2|ECONNRESET|ETIMEDOUT|ENETUNREACH|EAI_AGAIN|
\* 429|502|503|504/i.test(msg), msg being the message of the error thrown: the
\* status of the PUT or of the refresh, or the text of the rejected fetch
Retriable(err) == err \in {"429", "502", "503", "504", "net_named"}

\* what the callback of putJson throws, "none" when it returns
ThrownBy(first, refresh, second) ==
  IF first = "200" THEN "none"
  ELSE IF first # "401" THEN first
  ELSE IF refresh # "ok" THEN refresh
  ELSE IF second = "200" THEN "none"
  ELSE second

\* one turn of the loop of withRetry around the callback of putJson: the PUT; on
\* 401 ensureToken and the PUT once more; then return, sleep and go on, or throw
AfterAttempt(p, first, refresh, second) ==
  LET again == first = "401"
      resent == again /\ refresh = "ok"
      err == ThrownBy(first, refresh, second)
      p1 == [p EXCEPT !.sends = @ + (IF resent THEN 2 ELSE 1),
                      !.refreshes = @ + (IF again THEN 1 ELSE 0),
                      !.log = Append(@, [first |-> first,
                                         refresh |-> IF again THEN refresh ELSE "none",
                                         second |-> IF resent THEN second ELSE "none",
                                         error |-> err])]
  IN IF err = "none" THEN [p1 EXCEPT !.pc = "done"]
     ELSE IF p.attempt >= RetryAttempts THEN [p1 EXCEPT !.pc = "failed"]
     ELSE IF Retriable(err)
     THEN [p1 EXCEPT !.attempt = @ + 1, !.waits = Append(@, p.delay), !.delay = @ * 2]
     ELSE [p1 EXCEPT !.pc = "failed"]

\* await putJson(url, body): the call
PutJson ==
  /\ apply.put.pc = "idle"
  /\ apply' = [apply EXCEPT !.put = [IdlePut EXCEPT !.pc = "try"]]
  /\ UNCHANGED <<syncVars, optVars, reportVars, evaluation>>

\* return await fn() and the catch after it
PutAttempt ==
  /\ apply.put.pc = "try"
  /\ \E first \in PutStatuses, refresh \in RefreshAnswers, second \in PutStatuses :
       /\ first # "401" => refresh = "ok"
       /\ (first # "401" \/ refresh # "ok") => second = "200"
       /\ apply' = [apply EXCEPT !.put = AfterAttempt(apply.put, first, refresh, second)]
  /\ UNCHANGED <<syncVars, optVars, reportVars, evaluation>>

(* ---------------- initial states ---------------- *)
AccountRow(a, user, access, expiry, refresh, profile) ==
  [id |-> a, user_id |-> user, access_token |-> access, token_expires_at |-> expiry,
   refresh_token |-> refresh, status |-> "active", amazon_profile_id |-> profile,
   last_sync |-> NIL, last_3d_sync_at |-> NIL, last_7d_sync_at |-> NIL,
   last_30d_sync_at |-> NIL, daily_window_days |-> 3, weekly_window_days |-> 7,
   monthly_window_days |-> 30]

\* an empty store and freshly linked accounts: a1 with a usable or an expiring
\* token, a2 linked without a profile
InitStore ==
  /\ now = 0
  /\ accountsDB = [a \in Accounts |->
                     IF a = "a1" THEN AccountRow(a, "u1", 0, DEFAULT_EXPIRES_IN, "rt", "p1")
                     ELSE AccountRow(a, "u1", NIL, NIL, NULL, NULL)]
  /\ campaigns = {}
  /\ adGroups = {}
  /\ keywords = {}
  /\ nextId = 1
  /\ issued = 0
  /\ faults = 0
  /\ main = [IdleMain EXCEPT !.cycle = MaxCycle - 1]   \* a cycle, a sleep, a cycle
  /\ sync = IdleSync
  /\ remoteKeyword = [k \in KeywordIds |-> RemoteKeyword]
  /\ rulesDB = EmptyMap
  /\ optimization_logs = <<>>
  /\ opt = IdleOpt

Init ==
  /\ InitStore
  /\ remote = [a \in Accounts |-> IF a = "a1" THEN <<"c1", "c2">> ELSE <<>>]
  /\ STREAM_UPSERTS \in BOOLEAN
  /\ STRICT_ONLY_REPORTS \in (IF STREAM_UPSERTS THEN {FALSE} ELSE BOOLEAN)
  /\ ROLLING_SCHEDULE = FALSE
  /\ report = IdleReport
  /\ evaluation = IdleBuild
  /\ apply = IdleApply

Next ==
  \/ MainLoad
  \/ MainPick
  \/ MainSync
  \/ MainAfterSync
  \/ MainSleep
  \/ AdvertiserDeletes
  \/ SyncCampaigns
  \/ SyncAdGroups
  \/ SyncBatchKeywords
  \/ SyncBatchMetrics

vars == <<syncVars, optVars, reportVars, sideVars>>

Spec == Init /\ [][Next]_vars

\* the daemon of the store scenario in batch mode, and requests to the edge function
InitEdge ==
  /\ InitStore
  /\ remote = [a \in Accounts |-> IF a = "a1" THEN <<"c1", "c2">> ELSE <<>>]
  /\ STREAM_UPSERTS = FALSE
  /\ STRICT_ONLY_REPORTS = FALSE
  /\ ROLLING_SCHEDULE = FALSE
  /\ report = IdleReport
  /\ evaluation = IdleBuild
  /\ apply = IdleApply

NextEdge ==
  \/ Next
  \/ FetchAmazonData

SpecEdge == InitEdge /\ [][NextEdge]_vars

(* ---------------- the optimizer on a synchronised store ---------------- *)
\* a stored keyword row with its metrics
StoredKeyword(id, campaignDbId, adGroupDbId, kw, bid, impressions, clicks, spend, orders, sales) ==
  [KeywordDefaults EXCEPT !.id = id, !.campaign_id = campaignDbId, !.ad_group_id = adGroupDbId,
     !.keyword_id = kw, !.amazon_keyword_id = kw, !.bid = bid, !.status = "enabled",
     !.impressions = impressions, !.clicks = clicks, !.spend = spend, !.orders = orders,
     !.acos = Ratio(spend, sales, 0), !.ctr = Ratio(clicks, impressions, 0),
     !.cpc = Ratio(spend, clicks, 0)]

Condition(metric, comparison, value) ==
  [metric |-> metric, comparison |-> comparison, value |-> value]

RuleConditions ==
  { <<Condition("acos", ">", 0), Condition("clicks", ">", 50)>>,
    <<Condition("clicks", ">", 50)>>,
    <<>> }

ActionConf(type, value, minBid, maxBid) ==
  [type |-> type, value |-> value, min_bid |-> minBid, max_bid |-> maxBid]

RuleActions ==
  { ActionConf("decrease_bid", 20, NIL, NIL),
    ActionConf("decrease_bid", 50, 2, NIL),
    ActionConf("increase_bid", 500, NIL, 1000),
    ActionConf("decrease_bid", 15, NIL, NIL),
    ActionConf("increase_bid", 20, 50, 20),
    ActionConf("decrease_bid", 150, NIL, NIL),
    ActionConf("pause_keyword", NIL, NIL, NIL) }

RuleRow(id, user, conditions, action) ==
  [id |-> id, user_id |-> user, enabled |-> TRUE, last_run |-> NIL,
   settings |-> [frequency_days |-> 1, frequency_hours |-> NIL, entity |-> "keyword",
                 scope |-> [type |-> "ALL", campaign_ids |-> {}, keyword_ids |-> {}],
                 conditions |-> conditions, action |-> action, action_value |-> NIL]]

Scope(type, campaignIds, keywordIds) ==
  [type |-> type, campaign_ids |-> campaignIds, keyword_ids |-> keywordIds]

\* settings.scope: every keyword, the campaign of the second account, two keyword
\* rows, and a campaign scope and a keyword scope with nothing selected
RuleScopes ==
  { Scope("ALL", {}, {}), Scope("CAMPAIGNS", {2}, {}), Scope("KEYWORDS", {}, {5, 7}),
    Scope("CAMPAIGNS", {}, {}), Scope("KEYWORDS", {}, {}) }

\* keyword rows for a call of buildActionsForRule: one without orders, one with
\* sales, one without clicks and one without impressions
BuildKeywords ==
  { StoredKeyword(5, 1, 3, "k1", 100, 1000, 100, 5000, 0, 0),
    StoredKeyword(6, 2, 4, "k3", 10, 400, 60, 3000, 2, 10000),
    StoredKeyword(7, 2, 4, "k4", 200, 300, 0, 0, 0, 0),
    StoredKeyword(8, 2, 4, "k5", 50, 0, 0, 0, 0, 0) }

Metrics == {"spend", "impressions", "clicks", "orders", "acos", "ctr", "cpc"}

Comparators == {">", "<", ">=", "<=", "=="}

\* the value of each metric on the second row, as a threshold next to 0
Pivot(metric) ==
  CASE metric = "spend" -> 3000
    [] metric = "impressions" -> 400
    [] metric = "clicks" -> 60
    [] metric = "orders" -> 2
    [] metric = "acos" -> Ratio(3000, 10000, 0)
    [] metric = "ctr" -> Ratio(60, 400, 0)
    [] metric = "cpc" -> Ratio(3000, 60, 0)

PairConditions ==
  { Condition("clicks", ">", 50), Condition("acos", ">", 0),
    Condition("ctr", ">=", Ratio(60, 400, 0)), Condition("cpc", "==", 0) }

\* settings.conditions: none, each metric under each comparator, and pairs
BuildConditions ==
  {<<>>}
    \cup { <<Condition(m, c, v)>> : <<m, c, v>> \in
             { <<m, c, v>> \in Metrics \X Comparators \X {0, 60, 400, 1500, 3000, 500000} :
                 v \in {0, Pivot(m)} } }
    \cup { <<c1, c2>> : c1 \in PairConditions, c2 \in PairConditions }

BuildInputs ==
  { [pc |-> "call",
     rule |-> [RuleRow("r1", "u1", c, ActionConf("decrease_bid", 20, NIL, NIL))
                 EXCEPT !.settings.scope = sc],
     keywordsForAccount |-> BuildKeywords,
     actions |-> <<>>] :
      c \in BuildConditions, sc \in {Scope("ALL", {}, {}), Scope("KEYWORDS", {}, {5, 6, 8})} }

\* the token columns of the second account: usable, at the margin, inside the
\* margin, without access token, without expiry, and expiring without refresh token
TokenColumns ==
  { <<0, DEFAULT_EXPIRES_IN, "rt">>, <<0, REFRESH_MARGIN, "rt">>,
    <<0, REFRESH_MARGIN - 1, "rt">>, <<NIL, DEFAULT_EXPIRES_IN, "rt">>,
    <<0, NIL, "rt">>, <<0, REFRESH_MARGIN - 1, NULL>> }

\* the store the optimizer finds, but for the rules: two accounts of one user with
\* their keywords and metrics
InitOptData ==
  /\ now = 0
  /\ \E tc \in TokenColumns :
       accountsDB = [a \in Accounts |->
                       IF a = "a1" THEN AccountRow(a, "u1", 0, DEFAULT_EXPIRES_IN, "rt", "p1")
                       ELSE AccountRow(a, "u1", tc[1], tc[2], tc[3], "p2")]
  /\ campaigns = { [CampaignDefaults EXCEPT !.id = 1, !.account_id = "a1", !.campaign_id = "c1"],
                   [CampaignDefaults EXCEPT !.id = 2, !.account_id = "a2", !.campaign_id = "c3"] }
  /\ adGroups = { [AdGroupDefaults EXCEPT !.id = 3, !.account_id = "a1", !.campaign_id = 1,
                                          !.amazon_ad_group_id = "g1"],
                  [AdGroupDefaults EXCEPT !.id = 4, !.account_id = "a2", !.campaign_id = 2,
                                          !.amazon_ad_group_id = "g3"] }
  /\ keywords = { StoredKeyword(5, 1, 3, "k1", 100, 1000, 100, 5000, 0, 0),
                  StoredKeyword(6, 2, 4, "k3", 10, 400, 60, 3000, 2, 10000),
                  StoredKeyword(7, 2, 4, "k4", 200, 300, 10, 1000, 0, 0) }
  /\ nextId = 8
  /\ issued = 0
  /\ faults = 0
  /\ main = IdleMain
  /\ sync = IdleSync
  /\ remote = [a \in Accounts |-> IF a = "a1" THEN <<"c1">> ELSE <<"c3">>]
  /\ STREAM_UPSERTS = FALSE
  /\ STRICT_ONLY_REPORTS = FALSE
  /\ ROLLING_SCHEDULE = FALSE
  /\ remoteKeyword = [k \in KeywordIds |->
                        [RemoteKeyword EXCEPT !.bid = IF k = "k3" THEN 10
                                                      ELSE IF k = "k4" THEN 200 ELSE 100]]
  /\ optimization_logs = <<>>
  /\ report = IdleReport
  /\ evaluation = IdleBuild
  /\ apply = IdleApply

\* the store the optimizer finds: InitOptData and one rule
InitOptStore ==
  /\ InitOptData
  /\ \E conditions \in RuleConditions, action \in RuleActions, scope \in RuleScopes :
       rulesDB = [r \in {"r1"} |->
                    [RuleRow(r, "u1", conditions, action) EXCEPT !.settings.scope = scope]]

InitOpt ==
  /\ InitOptStore
  /\ opt = IdleOpt

NextOpt ==
  \/ OptMain
  \/ OptAccount
  \/ OptRule
  \/ OptFinish

SpecOpt == InitOpt /\ [][NextOpt]_vars

(* ---------------- optimizer: a rule with malformed settings ---------------- *)
\* the conditions of the first rule: well-formed ones, and ones with an entry
\* that is null, first or behind a condition that some keywords pass
MalformedConditions ==
  { <<NullCondition>>,
    <<Condition("clicks", ">", 50), NullCondition>>,
    <<Condition("clicks", ">", 500), NullCondition>> }

\* two rules of the one user, the second well-formed; the first has run a while
\* ago or never
InitRules ==
  /\ InitOptData
  /\ \E c1 \in RuleConditions \cup MalformedConditions,
        c2 \in {<<>>, <<Condition("clicks", ">", 50)>>},
        action \in {ActionConf("decrease_bid", 20, NIL, NIL),
                    ActionConf("pause_keyword", NIL, NIL, NIL)},
        last \in {NIL, 0} :
       rulesDB = [r \in {"r1", "r2"} |->
                    IF r = "r1"
                    THEN [RuleRow(r, "u1", c1, ActionConf("decrease_bid", 20, NIL, NIL))
                            EXCEPT !.last_run = last]
                    ELSE RuleRow(r, "u1", c2, action)]
  /\ opt = [IdleOpt EXCEPT !.pass = MaxPass - 1]

SpecRules == InitRules /\ [][NextOpt]_vars

\* the rules of the account of the trace, as main() handed them to processAccount
RulesGiven == RulesOfUser(opt.rules, opt.trace.given.user_id)

\* the rules the loop of the account of the trace came to
RulesReached == opt.trace.executed + opt.trace.skipped + opt.trace.thrown

\* C36: a rule whose evaluation fails is skipped on its own: once the rule loop of
\* an account is over, every rule of the account was come to, the failing one
\* included, so the rules behind it were evaluated and executed in that pass
C36_MalformedRuleSkippedAlone ==
  (opt.pc = "accounts" /\ RulesReached > 0) => RulesReached = Len(RulesGiven)

\* C36: what does hold: the failure of a rule ends the account and not the pass;
\* the accounts behind it are still handed to processAccount
C36_PassGoesOnAfterThrow ==
  (opt.pc = "accounts" /\ opt.accounts = <<>>) => opt.done = opt.loaded

\* C36: a failing rule leaves no log line and keeps its last_run
C36_ThrowLeavesRuleAlone ==
  [][(opt.pc = "rules" /\ opt'.trace.thrown > opt.trace.thrown)
       => /\ rulesDB' = rulesDB
          /\ optimization_logs' = optimization_logs
          /\ remoteKeyword' = remoteKeyword]_vars

(* ---------------- both daemons, the sync on the rolling schedule ---------------- *)
T0 == 31 * DAY_MS

\* monthly_window_days, weekly_window_days and daily_window_days as the
\* migration sets them, and as an operator changed them
DefaultWindows == <<30, 7, 3>>
ChangedWindows == <<28, 14, 2>>

\* last_30d_sync_at, last_7d_sync_at, last_3d_sync_at, access_token,
\* token_expires_at, refresh_token and the window lengths of the first account,
\* the times being relative to T0
RollingColumns ==
  { <<NIL, NIL, NIL, 0, DEFAULT_EXPIRES_IN, "rt", DefaultWindows>>,
    <<30 * DAY_MS, 8 * DAY_MS, 1 * DAY_MS, 0, REFRESH_MARGIN, "rt", DefaultWindows>>,
    <<29 * DAY_MS, 7 * DAY_MS, 1 * DAY_MS, 0, REFRESH_MARGIN - 1, "rt", DefaultWindows>>,
    <<29 * DAY_MS, 3 * DAY_MS, DAY_MS \div 2, NIL, DEFAULT_EXPIRES_IN, "rt", DefaultWindows>>,
    <<29 * DAY_MS, 3 * DAY_MS, 1 * DAY_MS, 0, NIL, "rt", DefaultWindows>>,
    <<30 * DAY_MS, 3 * DAY_MS, DAY_MS \div 2, 0, REFRESH_MARGIN - 1, NULL, DefaultWindows>>,
    <<29 * DAY_MS, 8 * DAY_MS, DAY_MS \div 2, 0, DEFAULT_EXPIRES_IN, "rt", ChangedWindows>>,
    <<29 * DAY_MS, 3 * DAY_MS, DAY_MS \div 2, 0, DEFAULT_EXPIRES_IN, "rt", <<NIL, 0, NIL>>>> }

Ago(d) == IF d = NIL THEN NIL ELSE T0 - d
In(d) == IF d = NIL THEN NIL ELSE T0 + d

RollingAccount(rc) ==
  [AccountRow("a1", "u1", rc[4], In(rc[5]), rc[6], "p1") EXCEPT
     !.last_30d_sync_at = Ago(rc[1]), !.last_7d_sync_at = Ago(rc[2]),
     !.last_3d_sync_at = Ago(rc[3]), !.monthly_window_days = rc[7][1],
     !.weekly_window_days = rc[7][2], !.daily_window_days = rc[7][3]]

\* the rule has never run, or ran ten hours ago
RuleLastRuns == {NIL, T0 - 10 * 60}

\* the two daemons as the process manager runs them, each on its own timer and
\* with nothing between them but the store: an empty store, one rule, the last
\* cycle of the sync daemon and the last pass of the optimizer
InitShared ==
  /\ now = T0
  /\ accountsDB = [a \in Accounts |->
                     IF a = "a1" THEN AccountRow(a, "u1", 0, T0 + DEFAULT_EXPIRES_IN, "rt", "p1")
                     ELSE AccountRow(a, "u1", NIL, NIL, NULL, NULL)]
  /\ campaigns = {}
  /\ adGroups = {}
  /\ keywords = {}
  /\ nextId = 1
  /\ issued = 0
  /\ faults = MaxFaults
  /\ main = [IdleMain EXCEPT !.cycle = MaxCycle]
  /\ sync = IdleSync
  /\ remote = [a \in Accounts |-> IF a = "a1" THEN <<"c1", "c2">> ELSE <<>>]
  /\ STREAM_UPSERTS \in BOOLEAN
  /\ STRICT_ONLY_REPORTS = FALSE
  /\ ROLLING_SCHEDULE = FALSE
  /\ remoteKeyword = [k \in KeywordIds |-> RemoteKeyword]
  /\ rulesDB = [r \in {"r1"} |->
                  RuleRow(r, "u1", <<>>, ActionConf("decrease_bid", 20, NIL, NIL))]
  /\ optimization_logs = <<>>
  /\ opt = [IdleOpt EXCEPT !.pass = MaxPass - 1]
  /\ report = IdleReport
  /\ evaluation = IdleBuild
  /\ apply = IdleApply

NextShared ==
  \/ MainLoad
  \/ MainPick
  \/ MainSync
  \/ MainAfterSync
  \/ SyncCampaigns
  \/ SyncAdGroups
  \/ SyncBatchKeywords
  \/ SyncBatchMetrics
  \/ OptMain
  \/ OptAccount
  \/ OptRule
  \/ OptFinish

\* robotads-sync and robotads-optimizer side by side
SpecShared == InitShared /\ [][NextShared]_vars

\* for (const account of accounts) of the sync daemon has run out
CycleEnded == main.pc = "pick" /\ main.todo = <<>>

\* for (const account of accounts) of the optimizer has run out
PassEnded == opt.pc = "accounts" /\ opt.accounts = <<>>

\* the two daemons with failures: the token of the first account is usable or
\* about to expire, the second account has campaigns of its own
InitPass ==
  /\ now = T0
  /\ \E expiry \in {DEFAULT_EXPIRES_IN, REFRESH_MARGIN - 1} :
       accountsDB = [a \in Accounts |->
                       IF a = "a1" THEN AccountRow(a, "u1", 0, T0 + expiry, "rt", "p1")
                       ELSE AccountRow(a, "u1", 0, T0 + DEFAULT_EXPIRES_IN, "rt", "p2")]
  /\ campaigns = {}
  /\ adGroups = {}
  /\ keywords = {}
  /\ nextId = 1
  /\ issued = 0
  /\ faults = 0
  /\ main = [IdleMain EXCEPT !.cycle = MaxCycle]
  /\ sync = IdleSync
  /\ remote = [a \in Accounts |-> IF a = "a1" THEN <<"c1">> ELSE <<"c3">>]
  /\ STREAM_UPSERTS = TRUE
  /\ STRICT_ONLY_REPORTS = FALSE
  /\ ROLLING_SCHEDULE = FALSE
  /\ remoteKeyword = [k \in KeywordIds |-> RemoteKeyword]
  /\ rulesDB = [r \in {"r1"} |->
                  RuleRow(r, "u1", <<>>, ActionConf("decrease_bid", 20, NIL, NIL))]
  /\ optimization_logs = <<>>
  /\ opt = [IdleOpt EXCEPT !.pass = MaxPass - 1]
  /\ report = IdleReport
  /\ evaluation = IdleBuild
  /\ apply = IdleApply

\* the pass of the optimizer that starts when the cycle of the sync daemon is over
OptMainAfterCycle == CycleEnded /\ OptMain

NextPass ==
  \/ MainLoadInTurn
  \/ MainPick
  \/ MainSync
  \/ MainSyncThrows
  \/ MainAfterSync
  \/ SyncCampaigns
  \/ SyncAdGroups
  \/ OptMainAfterCycle
  \/ OptAccount
  \/ OptRule
  \/ OptFinish

\* one cycle of the sync daemon and one pass of the optimizer, with failures
SpecPass == InitPass /\ [][NextPass]_vars

\* the prepared store with one rule that lowers every bid by a fifth, at the
\* last pass of the optimizer
InitApply ==
  /\ InitOptStore
  /\ opt = [IdleOpt EXCEPT !.pass = MaxPass - 1]
  /\ accountsDB["a2"].refresh_token # NULL
  /\ rulesDB["r1"].settings.conditions = <<>>
  /\ rulesDB["r1"].settings.scope.type = "ALL"
  /\ rulesDB["r1"].settings.action = ActionConf("decrease_bid", 20, NIL, NIL)

NextApply ==
  \/ OptMain
  \/ OptAccount
  \/ OptRule
  \/ OptFinish
  \/ ApplyAmazonUpdates

\* the optimizer and the update requests of the dashboard
SpecApply == InitApply /\ [][NextApply]_vars

InitRoll ==
  /\ now = T0
  /\ \E rc \in RollingColumns :
       accountsDB = [a \in Accounts |->
                       IF a = "a1" THEN RollingAccount(rc)
                       ELSE AccountRow(a, "u1", NIL, NIL, NULL, NULL)]
  /\ campaigns = {}
  /\ adGroups = {}
  /\ keywords = {}
  /\ nextId = 1
  /\ issued = 0
  /\ faults = MaxFaults             \* every listing and every write gets through
  /\ main = [IdleMain EXCEPT !.cycle = MaxCycle - 1]   \* a cycle, a sleep, a cycle
  /\ sync = IdleSync
  /\ remote = [a \in Accounts |-> IF a = "a1" THEN <<"c1">> ELSE <<>>]
  /\ STREAM_UPSERTS = FALSE
  /\ STRICT_ONLY_REPORTS = FALSE
  /\ ROLLING_SCHEDULE = TRUE
  /\ remoteKeyword = [k \in KeywordIds |-> RemoteKeyword]
  /\ \E last \in RuleLastRuns :
       rulesDB = [r \in {"r1"} |->
                    [RuleRow(r, "u1", <<>>, ActionConf("decrease_bid", 20, NIL, NIL))
                       EXCEPT !.last_run = last]]
  /\ optimization_logs = <<>>
  /\ opt = [IdleOpt EXCEPT !.pass = MaxPass - 1]       \* one pass of the optimizer
  /\ report = IdleReport
  /\ evaluation = IdleBuild
  /\ apply = IdleApply

NextRoll ==
  \/ MainLoadInTurn
  \/ MainPick
  \/ MainSync
  \/ MainAfterSync
  \/ MainSleep
  \/ SyncCampaigns
  \/ SyncAdGroups
  \/ SyncBatchKeywords
  \/ SyncBatchMetrics
  \/ OptMainInTurn
  \/ OptAccount
  \/ OptRule
  \/ OptFinish

SpecRoll == InitRoll /\ [][NextRoll]_vars

(* ---------------- one report call ---------------- *)
\* the maximum wait and the poll interval of the deployment; a maximum wait of 0
\* means waiting without a deadline
ReportConfigs ==
  { [IdleReport EXCEPT !.maxWait = m, !.interval = i] : m \in {0, 2, 3, 5}, i \in {1, 2, 3} }

InitReport ==
  /\ InitStore
  /\ remote = [a \in Accounts |-> <<>>]
  /\ STREAM_UPSERTS = FALSE
  /\ STRICT_ONLY_REPORTS = FALSE
  /\ ROLLING_SCHEDULE = FALSE
  /\ report \in ReportConfigs
  /\ evaluation = IdleBuild
  /\ apply = IdleApply

NextReport ==
  \/ ReportCreate
  \/ ReportPoll
  \/ ReportDownload

InitBuild ==
  /\ InitStore
  /\ remote = [a \in Accounts |-> <<>>]
  /\ STREAM_UPSERTS = FALSE
  /\ STRICT_ONLY_REPORTS = FALSE
  /\ ROLLING_SCHEDULE = FALSE
  /\ report = IdleReport
  /\ apply = IdleApply
  /\ evaluation \in BuildInputs

\* getKeywordMetrics(...) as launched by the run of syncAccount in hand, up to the
\* poll loop: keywordMetricsPromise is created before the campaign report is
\* awaited, and the answer to its creation request arrives while that await lasts
KeywordReportCreate ==
  /\ sync.pc = "campaigns"
  /\ ~SKIP_METRICS
  /\ report.pc = "idle"
  /\ \E create \in CreateOutcomes :
       report' = [AfterCreate(report, "keyword", create) EXCEPT !.run = Len(main.ran)]
  /\ UNCHANGED <<syncVars, optVars, sideVars>>

\* one cycle of the sync daemon in stream mode: the first account has a campaign,
\* the second has none
InitFlight ==
  /\ now = T0
  /\ accountsDB = [a \in Accounts |->
                     AccountRow(a, "u1", 0, T0 + DEFAULT_EXPIRES_IN, "rt",
                                IF a = "a1" THEN "p1" ELSE "p2")]
  /\ campaigns = {}
  /\ adGroups = {}
  /\ keywords = {}
  /\ nextId = 1
  /\ issued = 0
  /\ faults = MaxFaults
  /\ main = [IdleMain EXCEPT !.cycle = MaxCycle]
  /\ sync = IdleSync
  /\ remote = [a \in Accounts |-> IF a = "a1" THEN <<"c1">> ELSE <<>>]
  /\ STREAM_UPSERTS = TRUE
  /\ STRICT_ONLY_REPORTS = FALSE
  /\ ROLLING_SCHEDULE = FALSE
  /\ remoteKeyword = [k \in KeywordIds |-> RemoteKeyword]
  /\ rulesDB = EmptyMap
  /\ optimization_logs = <<>>
  /\ opt = [IdleOpt EXCEPT !.pass = MaxPass]
  /\ report = [IdleReport EXCEPT !.maxWait = 3]
  /\ evaluation = IdleBuild
  /\ apply = IdleApply

NextFlight ==
  \/ MainLoad
  \/ MainPick
  \/ MainSync
  \/ MainAfterSync
  \/ SyncCampaigns
  \/ SyncAdGroups
  \/ KeywordReportCreate
  \/ ReportPoll
  \/ ReportDownload

\* syncAccount and the keyword report it launches
SpecFlight == InitFlight /\ [][NextFlight]_vars

\* one cycle of the sync daemon in stream mode on an account whose token is
\* usable or about to expire, and the update requests of the dashboard
InitTokens ==
  /\ now = T0
  /\ \E expiry \in {DEFAULT_EXPIRES_IN, REFRESH_MARGIN - 1} :
       accountsDB = [a \in Accounts |->
                       IF a = "a1" THEN AccountRow(a, "u1", 0, T0 + expiry, "rt", "p1")
                       ELSE AccountRow(a, "u1", NIL, NIL, NULL, NULL)]
  /\ campaigns = {}
  /\ adGroups = {}
  /\ keywords = {}
  /\ nextId = 1
  /\ issued = 0
  /\ faults = MaxFaults - 1
  /\ main = [IdleMain EXCEPT !.cycle = MaxCycle]
  /\ sync = IdleSync
  /\ remote = [a \in Accounts |-> IF a = "a1" THEN <<"c1">> ELSE <<>>]
  /\ STREAM_UPSERTS = TRUE
  /\ STRICT_ONLY_REPORTS = FALSE
  /\ ROLLING_SCHEDULE = FALSE
  /\ remoteKeyword = [k \in KeywordIds |-> RemoteKeyword]
  /\ rulesDB = EmptyMap
  /\ optimization_logs = <<>>
  /\ opt = [IdleOpt EXCEPT !.pass = MaxPass]
  /\ report = IdleReport
  /\ evaluation = IdleBuild
  /\ apply = IdleApply

NextTokens ==
  \/ MainLoad
  \/ MainPick
  \/ MainSync
  \/ MainAfterSync
  \/ SyncCampaigns
  \/ SyncAdGroups
  \/ ApplyAmazonUpdates

\* the sync daemon and the update requests, each refreshing tokens
SpecTokens == InitTokens /\ [][NextTokens]_vars

\* one cycle of the sync daemon on an account with two campaigns, each with an
\* ad group and keywords, in either mode
InitUpsert ==
  /\ InitStore
  /\ remote = [a \in Accounts |-> IF a = "a1" THEN <<"c1", "c3">> ELSE <<>>]
  /\ STREAM_UPSERTS \in BOOLEAN
  /\ STRICT_ONLY_REPORTS = FALSE
  /\ ROLLING_SCHEDULE = FALSE
  /\ report = IdleReport
  /\ evaluation = IdleBuild
  /\ apply = IdleApply

NextUpsert ==
  \/ MainLoad
  \/ MainPick
  \/ MainSync
  \/ MainAfterSync
  \/ MainSleep
  \/ SyncCampaigns
  \/ SyncAdGroups
  \/ SyncBatchKeywords
  \/ SyncBatchMetrics

\* syncAccount with refused listings and refused writes
SpecUpsert == InitUpsert /\ [][NextUpsert]_vars

InitPut ==
  /\ InitStore
  /\ remote = [a \in Accounts |-> <<>>]
  /\ STREAM_UPSERTS = FALSE
  /\ STRICT_ONLY_REPORTS = FALSE
  /\ ROLLING_SCHEDULE = FALSE
  /\ report = IdleReport
  /\ evaluation = IdleBuild
  /\ apply = IdleApply

NextPut ==
  \/ PutJson
  \/ PutAttempt

\* one call of putJson, with every answer of the platform and the token endpoint
SpecPut == InitPut /\ [][NextPut]_vars

(* ---------------- syncAccount: the keyword-to-campaign aggregation alone ---------------- *)
\* the keywords a keyword report under aggregation has a row for, at most
RollupKeys == {"k1", "k2", "k3"}

\* the totals of a decoded row: none, impressions only, clicks without sales, and
\* clicks with orders and sales
RollupTotals ==
  { [impressions |-> 0, clicks |-> 0, cost |-> 0, orders |-> 0, sales |-> 0],
    [impressions |-> 50, clicks |-> 0, cost |-> 0, orders |-> 0, sales |-> 0],
    [impressions |-> 10, clicks |-> 5, cost |-> 300, orders |-> 0, sales |-> 0],
    [impressions |-> 100, clicks |-> 10, cost |-> 500, orders |-> 1, sales |-> 2000] }

\* the entry of byKeywordId for a row: campaignId is "" when the row carries none
RollupEntry(campaignId, totals) ==
  [campaignId |-> campaignId, adGroupId |-> "g1"] @@ totals

\* the Maps getKeywordMetrics can hand to the aggregation: SUMMARY rows grouped by
\* targeting, one per keyword id
RollupInputs ==
  UNION { [ks -> { RollupEntry(c, t) : c \in {"c1", "c2", ""}, t \in RollupTotals }] :
          ks \in SUBSET RollupKeys }

IdleRollup == [pc |-> "idle", keywordMetricsById |-> EmptyMap, fallback |-> "none",
               metricsByCampaignId |-> EmptyMap]

InitRollup ==
  /\ InitStore
  /\ remote = [a \in Accounts |-> <<>>]
  /\ STREAM_UPSERTS = FALSE
  /\ STRICT_ONLY_REPORTS \in BOOLEAN
  /\ ROLLING_SCHEDULE = FALSE
  /\ report = IdleReport
  /\ apply = IdleApply
  /\ \E kw \in RollupInputs : evaluation = [IdleRollup EXCEPT !.keywordMetricsById = kw]

\* the block behind an empty campaign report: the keyword metrics grouped by
\* campaign id take the place of metricsByCampaignId, unless strict mode is on
Aggregate ==
  /\ evaluation.pc = "idle"
  /\ evaluation' =
       [evaluation EXCEPT
          !.pc = "rolled",
          !.fallback = FallbackBranch(EmptyMap, evaluation.keywordMetricsById,
                                      STRICT_ONLY_REPORTS),
          !.metricsByCampaignId = FallbackMetrics(EmptyMap, evaluation.keywordMetricsById,
                                                  STRICT_ONLY_REPORTS)]
  /\ UNCHANGED <<syncVars, optVars, reportVars, apply>>

NextRollup == Aggregate

SpecRollup == InitRollup /\ [][NextRollup]_vars

\* what the row of keyword k adds to field f of campaign c
RowPart(k, c, f) ==
  IF k \in DOMAIN evaluation.keywordMetricsById /\ evaluation.keywordMetricsById[k].campaignId = c
  THEN evaluation.keywordMetricsById[k][f]
  ELSE 0

RowTotal(c, f) == RowPart("k1", c, f) + RowPart("k2", c, f) + RowPart("k3", c, f)

\* n / d in units of 1/Scale, 0 when d is 0
Quotient(n, d) == IF d = 0 THEN 0 ELSE (n * Scale) \div d

\* C37: whenever fallback aggregation is performed, there is one rollup per
\* campaign id carried by a keyword-report row; its impressions, clicks, cost,
\* orders and sales are the sums over the rows of that campaign id, CTR is
\* clicks/impressions, CPC cost/clicks and ACOS cost/sales, each 0 when its
\* denominator is 0; rows without a campaign id add to no rollup.
C37_RollupIsSum ==
  (evaluation.pc = "rolled" /\ evaluation.fallback = "aggregated") =>
    LET kw == evaluation.keywordMetricsById
        agg == evaluation.metricsByCampaignId
    IN /\ DOMAIN agg = { kw[k].campaignId : k \in DOMAIN kw } \ {""}
       /\ \A c \in DOMAIN agg :
            /\ \A f \in {"impressions", "clicks", "cost", "orders", "sales"} :
                  agg[c][f] = RowTotal(c, f)
            /\ agg[c].ctr = Quotient(RowTotal(c, "clicks"), RowTotal(c, "impressions"))
            /\ agg[c].cpc = Quotient(RowTotal(c, "cost"), RowTotal(c, "clicks"))
            /\ agg[c].acos = Quotient(RowTotal(c, "cost"), RowTotal(c, "sales"))

\* two rows of campaign c1 are summed, the second without sales; the row of k3
\* carries no campaign id and campaign c2 has no row
C37_Witness ==
  /\ evaluation.pc = "rolled"
  /\ evaluation.fallback = "aggregated"
  /\ DOMAIN evaluation.keywordMetricsById = RollupKeys
  /\ evaluation.keywordMetricsById["k3"].campaignId = ""
  /\ evaluation.keywordMetricsById["k3"].clicks = 10
  /\ DOMAIN evaluation.metricsByCampaignId = {"c1"}
  /\ evaluation.metricsByCampaignId["c1"].clicks = 5
  /\ evaluation.metricsByCampaignId["c1"].impressions = 60
  /\ evaluation.metricsByCampaignId["c1"].acos = 0
  /\ evaluation.metricsByCampaignId["c1"].cpc = 60 * Scale

NextBuild == BuildActions

\* buildActionsForRule applied to each rule of BuildInputs
SpecBuild == InitBuild /\ [][NextBuild]_vars

SpecReport == InitReport /\ [][NextReport]_vars

\* every await of the call settles: a fetch answers or fails, a timer fires
SpecReportFair == SpecReport /\ WF_vars(NextReport)

(* ---------------- properties of syncAccount on the store ---------------- *)
CampaignMetricColumns == {"spend", "impressions", "clicks", "orders", "acos", "ctr", "cpc"}

KeywordMetricColumns == {"spend", "impressions", "clicks", "orders", "acos"}

SameOn(r1, r2, columns) == \A f \in columns : r1[f] = r2[f]

\* the run in flight has returned after both reports came back empty (a report
\* the run never awaits counts as one that brought nothing)
BothReportsEmpty ==
  /\ sync.pc = "returned"
  /\ sync.trace.campReport = "empty"
  /\ sync.trace.kwReport # "rows"

\* C1: when the campaign report and the keyword report of a run come back empty,
\* every campaign and keyword that was stored before the run and is still listed
\* by the remote platform keeps its spend, impressions, clicks, orders and ACOS
\* (campaigns also CTR and CPC) exactly as they were before the run.
C1_CarryOver ==
  BothReportsEmpty =>
    /\ \A c \in CampaignsOf(sync.pre.campaigns, sync.account) :
          c.campaign_id \in Range(sync.amazonCampaigns) =>
            \E d \in campaigns : d.id = c.id /\ SameOn(c, d, CampaignMetricColumns)
    /\ \A k \in KeywordsOf(sync.pre.keywords, sync.pre.campaigns, sync.account) :
          k.amazon_keyword_id \in RemoteKeywordIds(sync.account) =>
            \E d \in keywords : d.id = k.id /\ SameOn(k, d, KeywordMetricColumns)

\* a batch run with both reports empty rewrote a listed campaign and a listed
\* keyword whose stored metrics were not zero
C1_Witness ==
  /\ BothReportsEmpty
  /\ sync.trace.kwReport = "empty"
  /\ sync.trace.outcome = "completed"
  /\ \E c \in CampaignsOf(sync.pre.campaigns, sync.account) :
        c.campaign_id \in Range(sync.amazonCampaigns) /\ c.spend > 0 /\ c.ctr > 0
  /\ \E k \in KeywordsOf(sync.pre.keywords, sync.pre.campaigns, sync.account) :
        /\ k.amazon_keyword_id \in { r.amazon_keyword_id : r \in Range(sync.keywordRows) }
        /\ k.spend > 0

\* the store already holds a row for every campaign, ad group and keyword the
\* remote platform lists for the account of the run in flight, and the listing is
\* the one of the run before
SyncedBefore ==
  /\ sync.pc = "returned"
  /\ sync.trace.outcome \in {"completed", "completed_stream"}
  /\ \A c \in RemoteCampaignIds(sync.account) :
        \E r \in CampaignsOf(sync.pre.campaigns, sync.account) : r.campaign_id = c
  /\ \A g \in RemoteAdGroupIds(sync.account) :
        \E r \in AdGroupsOf(sync.pre.adGroups, sync.account) : r.amazon_ad_group_id = g
  /\ \A k \in RemoteKeywordIds(sync.account) :
        \E r \in KeywordsOf(sync.pre.keywords, sync.pre.campaigns, sync.account) :
           r.amazon_keyword_id = k

\* C2: a run over remote data the store already holds creates no row: the
\* campaign, ad-group and keyword tables keep exactly the ids they had.
C2_Idempotent ==
  SyncedBefore =>
    /\ Ids(campaigns) = Ids(sync.pre.campaigns)
    /\ Ids(adGroups) = Ids(sync.pre.adGroups)
    /\ Ids(keywords) = Ids(sync.pre.keywords)

\* no two rows with one provider id
UniqueProviderIds ==
  /\ \A r1, r2 \in campaigns :
        r1.account_id = r2.account_id /\ r1.campaign_id = r2.campaign_id => r1.id = r2.id
  /\ \A a \in Accounts : \A k1, k2 \in KeywordsOf(keywords, campaigns, a) :
        k1.amazon_keyword_id = k2.amazon_keyword_id => k1.id = k2.id

\* a stored campaign or keyword keeps its id and its provider id in every step
KeepsIds ==
  /\ \A r \in campaigns : \E q \in campaigns' :
        q.id = r.id /\ q.account_id = r.account_id /\ q.campaign_id = r.campaign_id
  /\ \A k \in keywords : \E q \in keywords' :
        q.id = k.id /\ q.amazon_keyword_id = k.amazon_keyword_id

\* C4: at every moment no two campaign rows and no two keyword rows of an account
\* carry the same provider id, and in every step each stored campaign and keyword
\* keeps the internal id it has, so the id is the one of the first sync that saw it.
C4_StableUniqueIds == []UniqueProviderIds /\ [][KeepsIds]_vars

\* a later run met a campaign and a keyword it had stored before and wrote them again
C4_Witness ==
  /\ sync.pc = "returned"
  /\ sync.trace.outcome \in {"completed", "completed_stream"}
  /\ \E c \in CampaignsOf(sync.pre.campaigns, sync.account) :
        c.campaign_id \in Range(sync.amazonCampaigns)
  /\ \E k \in KeywordsOf(sync.pre.keywords, sync.pre.campaigns, sync.account) :
        k.amazon_keyword_id \in { r.amazon_keyword_id : r \in Range(sync.keywordRows) }

\* no step takes a row out of the campaign, ad-group or keyword table
NoRowRemoved ==
  /\ Ids(campaigns) \subseteq Ids(campaigns')
  /\ Ids(adGroups) \subseteq Ids(adGroups')
  /\ Ids(keywords) \subseteq Ids(keywords')

\* C3: no step of a synchronization, by the daemon or by the fetch-amazon-data
\* request, removes a campaign, ad-group or keyword row: a row that is in the
\* store before the step is in the store after it.
C3_NoStructuralDelete == [][NoRowRemoved]_vars
(* ---------------- properties of the optimizer ---------------- *)
LogRows == Range(optimization_logs)

\* two log rows written by the same run of a rule on an account
SameExecution(x, y) ==
  x.amazon_account_id = y.amazon_account_id /\ x.created_at = y.created_at

\* C5: any two executions of a rule that sent actions, on whichever accounts of
\* the owning user and in whichever passes, lie at least frequency_days x 24
\* hours apart.
C5_Cooldown ==
  \A x \in LogRows, y \in LogRows :
    (x.rule_id = y.rule_id /\ ~SameExecution(x, y)) =>
      Abs(x.created_at - y.created_at) >= rulesDB[x.rule_id].settings.frequency_days * DAY_MS

\* the new bid the rule's percentage asks for, in hundredths of a cent
AskedBid(row, conf) ==
  IF row.action = "increase_bid" THEN row.current_bid * (100 + conf.value)
  ELSE row.current_bid * (100 - conf.value)

PercentageRows == { x \in LogRows : x.action \in {"increase_bid", "decrease_bid"} }

C7_Scenario ==
  /\ "r1" \in DOMAIN rulesDB
  /\ rulesDB["r1"].settings.conditions =
       <<Condition("acos", ">", 0), Condition("clicks", ">", 50)>>
  /\ rulesDB["r1"].settings.action.type = "decrease_bid"
  /\ rulesDB["r1"].settings.action.value = 20
  /\ Cardinality(CampaignsOf(campaigns, "a1")) = 1
  /\ \E k \in keywords :
       /\ KeywordsOf(keywords, campaigns, "a1") = {k}
       /\ k.clicks = 100 /\ k.impressions = 1000 /\ k.spend = 5000 /\ k.acos = 0
       /\ k.bid = 100

\* the rule loop of the pass has run the rule on account a1
C7_RuleRan == opt.trace.account = "a1" /\ opt.trace.executed >= 1

\* C7: on the example account the rule produces exactly one action, which sets
\* the bid to 0.80 and is logged with the snapshot {ctr: 0.1, acos: 0}.
C7_OneActionAt80 ==
  (C7_Scenario /\ C7_RuleRan /\ opt.pass = 0) =>
    LET rows == { x \in LogRows : x.amazon_account_id = "a1" /\ x.rule_id = "r1" }
    IN /\ Cardinality(rows) = 1
       /\ \A x \in rows :
            /\ x.new_bid = 80
            /\ x.metrics_snapshot = [m \in {"ctr", "acos"} |-> IF m = "ctr" THEN 1000 ELSE 0]

(* ---------------- properties of the rolling schedule and the token check ---------------- *)
\* the account object main() works on, and the windows it found due for it
AccountInHand == main.accounts[Head(main.todo)]

DueInHand == Range(main.due)

\* C8: in the rolling due-check each window is due when its timestamp is absent
\* or lies at least its period (30 days, 7 days, 1 day) before now, and not due
\* otherwise; a weekly window last run 8 days ago is due, one last run 3 days
\* ago is not.
C8_RollingDueCheck ==
  (ROLLING_SCHEDULE /\ main.pc \in {"call", "await"}) =>
    /\ "weekly" \in DueInHand <=>
         (AccountInHand.last_7d_sync_at = NIL \/ now - AccountInHand.last_7d_sync_at >= 7 * 1440)
    /\ "monthly" \in DueInHand <=>
         (AccountInHand.last_30d_sync_at = NIL \/ now - AccountInHand.last_30d_sync_at >= 30 * 1440)
    /\ "daily" \in DueInHand <=>
         (AccountInHand.last_3d_sync_at = NIL \/ now - AccountInHand.last_3d_sync_at >= 1440)
    /\ AccountInHand.last_7d_sync_at = now - 8 * 1440 => "weekly" \in DueInHand
    /\ AccountInHand.last_7d_sync_at = now - 3 * 1440 => "weekly" \notin DueInHand

\* the weekly window of an account last synchronised 8 days ago has been found due
C8_Witness ==
  /\ ROLLING_SCHEDULE /\ main.pc = "call"
  /\ AccountInHand.last_7d_sync_at = now - 8 * 1440
  /\ "weekly" \in DueInHand

\* the condition of the claim on the account row a run was handed at time t
TokenStale(given, t) ==
  \/ given.access_token = NIL
  \/ given.token_expires_at = NIL
  \/ given.token_expires_at - t < 5

\* what the claim says of one token check: the refresh branch is entered exactly
\* when the condition holds, the token endpoint is called exactly when there is
\* a refresh token as well, and otherwise the given token is used as it is
TokenCheckAsClaimed(given, tr, used) ==
  /\ tr.startRefresh # "none" <=> TokenStale(given, tr.at)
  /\ tr.startRefresh \in {"refreshed", "rejected"} <=>
       (TokenStale(given, tr.at) /\ given.refresh_token # NULL)
  /\ tr.startRefresh = "none" => used = given.access_token

NothingDone(tr) == tr.listCalls = 0 /\ tr.reportCalls = 0 /\ tr.writes = 0

\* C10: when the proactive refresh cannot succeed (no refresh token, or the token
\* endpoint refuses), the account is marked reauth_required and nothing more is
\* done for it in the cycle: no listing, no report request, no write to the
\* campaign, ad-group and keyword tables, and its stored tokens stay as they were.
C10_StopsForCycle ==
  /\ sync.trace.startRefresh \in {"no_refresh_token", "rejected"} =>
       /\ accountsDB[sync.account].status = "reauth_required"
       /\ NothingDone(sync.trace)
       /\ TokenColumnsOf(accountsDB[sync.account]) = TokenColumnsOf(sync.pre.account)
  /\ \A a \in DOMAIN main.reauth :
       /\ TokenColumnsOf(accountsDB[a]) = main.reauth[a]
       /\ sync.account = a => NothingDone(sync.trace)

(* ---------------- properties of the listing calls ---------------- *)
RECURSIVE SumField(_, _)
SumField(seq, f) == IF seq = <<>> THEN 0 ELSE Head(seq)[f] + SumField(Tail(seq), f)

\* the refreshes a run makes outside its listing calls: the proactive one and one
\* per report that came back empty
OtherRefreshes(tr) == tr.startTokenCalls + (IF tr.reportCalls > 2 THEN tr.reportCalls - 2 ELSE 0)

\* C11: every listing call of a run (campaigns, ad groups of a campaign, keywords
\* of an ad group) whose first response is 401 makes exactly one token refresh
\* attempt and is sent exactly once more, and a call answered otherwise makes no
\* refresh and is sent once; a call whose re-send fails is given up after these
\* two sends. The run makes no listing request and no refresh beyond these.
C11_RetryOnce ==
  /\ \A i \in DOMAIN sync.trace.calls :
        LET c == sync.trace.calls[i]
        IN /\ c.first = 401 => c.refreshes = 1 /\ c.sends = 2
           /\ c.first # 401 => c.refreshes = 0 /\ c.sends = 1
           /\ c.ok => c.first \in {200, 401}
  /\ sync.trace.listCalls = SumField(sync.trace.calls, "sends")
  /\ sync.trace.tokenCalls = OtherRefreshes(sync.trace) + SumField(sync.trace.calls, "refreshes")
  /\ (sync.trace.calls # <<>> /\ sync.trace.calls[1].what = "campaigns"
        /\ ~sync.trace.calls[1].ok) =>
       sync.pc = "returned" /\ Len(sync.trace.calls) = 1

\* a keyword listing answered 401 was re-sent after one refresh, refused again and
\* given up, in a run that had listed campaigns and ad groups before
C11_Witness ==
  /\ sync.pc = "returned"
  /\ \E i \in DOMAIN sync.trace.calls :
        /\ sync.trace.calls[i].what = "keywords"
        /\ sync.trace.calls[i].first = 401
        /\ ~sync.trace.calls[i].ok
  /\ \E i \in DOMAIN sync.trace.calls : sync.trace.calls[i].what = "adGroups"

(* ---------------- properties of the report requests ---------------- *)
\* the run in flight has created its reports
ReportsRequested == DOMAIN sync.trace.range # {}

\* the claim as stated: the range starts w + 1 days before the current date
C12_AsStated ==
  ReportsRequested =>
    LET d == DateOf(sync.trace.at)
        w == Days(sync.windowDays)
    IN sync.trace.range.startDate = d - 1 - w /\ sync.trace.range.endDate = d - 1

\* C12: for a metrics window of w days and current date d, the report request
\* uses startDate = d - w and endDate = d - 1: the w days that end yesterday, so
\* the range never includes today.
C12_DateRange ==
  ReportsRequested =>
    LET d == DateOf(sync.trace.at)
        w == Days(sync.windowDays)
        r == sync.trace.range
    IN /\ r.endDate = d - 1
       /\ r.startDate = d - w
       /\ r.endDate - r.startDate + 1 = w
       /\ r.endDate < d

\* a run for the 30-day window created its reports at an hour past midnight
C12_Witness ==
  /\ ReportsRequested
  /\ sync.windowDays = 30
  /\ sync.trace.at % DAY_MS # 0

(* ---------------- properties of one report call ---------------- *)
\* the claim of C14 for a downloaded payload: the elements of an array, and for
\* anything else the lines that parse as objects, in order
RowsAsStated(payload) ==
  IF payload.kind = "array" THEN payload.items
  ELSE SelectSeq(payload.items, LAMBDA l : l \in {"o1", "o2"})

ObjectLines(payload) == { i \in DOMAIN payload.items : payload.items[i] \in {"o1", "o2"} }

\* C13: with a maximum wait M > 0 and a poll interval I > 0 a report call makes
\* at most ceil(M / I) status fetches; when that many fetches found the job still
\* running the call ends with an empty result; a status CANCELLED, FAILURE, ERROR
\* or FAILED ends the call with an empty result at that fetch; and a call that
\* polls always comes to an end.
C13_PollBounded ==
  /\ [](report.maxWait > 0 =>
          /\ report.fetches <= CeilDiv(report.maxWait, report.interval)
          /\ (report.pc = "poll" => report.fetches < CeilDiv(report.maxWait, report.interval))
          /\ (report.how = "timed_out" =>
                /\ report.fetches = CeilDiv(report.maxWait, report.interval)
                /\ report.pc = "done" /\ report.rows = <<>> /\ report.result = {})
          /\ (report.lastStatus \in FailureStatuses =>
                report.pc = "done" /\ report.rows = <<>> /\ report.result = {}))
  /\ [](report.pc = "poll" /\ report.maxWait > 0 => <>(report.pc = "done"))

\* a call with M = 5 and I = 2 gave up after its third fetch found the job still
\* running
C13_Witness ==
  /\ report.maxWait = 5 /\ report.interval = 2
  /\ report.how = "timed_out"
  /\ report.fetches = 3
  /\ report.lastStatus \in {"PENDING", "PROCESSING"}

\* C14: a download returns the elements of a payload that is a JSON array, and
\* for any other payload the lines that parse as JSON objects, in order: n rows
\* for a payload of n parsable object lines, for every n >= 1.
C14_DownloadedRows ==
  (report.how = "downloaded" /\ report.resOk) => report.rows = RowsAsStated(report.payload)

(* ---------------- properties of the metrics a run stores ---------------- *)
RunCompleted ==
  /\ sync.pc = "returned"
  /\ sync.trace.outcome \in {"completed", "completed_stream"}

\* the keyword report of the run came back with rows, whether the run read it or not
KeywordReportHasRows == sync.trace.kwReport = "rows" \/ sync.trace.unreadKw = "rows"

\* the keyword report of the window of the run in flight
FullKeywordReport ==
  [k \in RemoteKeywordIds(sync.account) |->
     KeywordMetricsOfRow(k, KeywordReportRow(k, Days(sync.windowDays)))]

\* the campaign columns derived from the keyword report
Rollup(c) == CampaignColumns(AggregateBy(FullKeywordReport, "campaignId")[c])

ListedWithTraffic == { c \in Range(sync.amazonCampaigns) : KeywordsOfCampaign(c) # {} }

StoredCampaign(c) == { r \in campaigns : r.account_id = sync.account /\ r.campaign_id = c }

FallbackGate ==
  /\ sync.trace.campReport = "empty"
  /\ KeywordReportHasRows
  /\ ~STRICT_ONLY_REPORTS

\* C15: in a run that completes, campaign rollups are derived from the keyword
\* report and stored exactly when the campaign report is empty, the keyword report
\* has rows and strict mode is off; with strict mode on and an empty campaign
\* report nothing is derived and every campaign stored before keeps its metrics.
C15_FallbackGate ==
  RunCompleted =>
    /\ FallbackGate <=> sync.trace.fallback = "aggregated"
    /\ FallbackGate =>
         \A c \in ListedWithTraffic : \A r \in StoredCampaign(c) :
            SameOn(r, Rollup(c), CampaignMetricColumns)
    /\ (STRICT_ONLY_REPORTS /\ sync.trace.campReport = "empty") =>
         \A c \in CampaignsOf(sync.pre.campaigns, sync.account) :
            c.campaign_id \in Range(sync.amazonCampaigns) =>
              \E d \in campaigns : d.id = c.id /\ SameOn(c, d, CampaignMetricColumns)

\* the metric columns of a keyword as the keyword report of the run gives them
FreshKeywordMetrics(k) ==
  LET m == FullKeywordReport[k]
  IN [spend |-> m.cost, impressions |-> m.impressions, clicks |-> m.clicks,
      orders |-> m.orders, acos |-> Ratio(m.cost, m.sales, 0)]

ZeroKeywordMetrics == [spend |-> 0, impressions |-> 0, clicks |-> 0, orders |-> 0, acos |-> 0]

\* fresh metrics, else the metrics stored before the run, else zero
ExpectedKeywordMetrics(k) ==
  IF KeywordReportHasRows /\ k \in DOMAIN FullKeywordReport THEN FreshKeywordMetrics(k)
  ELSE IF DOMAIN OldKeywordMetrics(sync.oldKeywords, k) # {}
  THEN OldKeywordMetrics(sync.oldKeywords, k)
  ELSE ZeroKeywordMetrics

\* C16: after a run that completes (no listing and no write having been
\* refused), every keyword the remote platform returned is stored with the
\* metrics of the keyword report when the report has a row for it, otherwise with
\* the metrics stored before, otherwise with zeros.
C16_KeywordMetrics ==
  (RunCompleted /\ faults = 0) =>
    \A i \in DOMAIN sync.keywordRows :
      /\ \E d \in keywords : d.id = sync.keywordRows[i].id
      /\ \A d \in keywords :
            d.id = sync.keywordRows[i].id =>
              SameOn(d, ExpectedKeywordMetrics(sync.keywordRows[i].amazon_keyword_id),
                     KeywordMetricColumns)

\* the account row as the last statement of a batch run leaves it: last_sync set
\* during the run, status active
AccountRowClosed ==
  LET row == accountsDB[sync.account]
  IN /\ row.last_sync # NIL
     /\ row.last_sync >= sync.trace.at
     /\ row.status = "active"

\* C38: for the same store and the same remote responses a run with streaming
\* writes ends in the store state a run with batch writes ends in; a batch run
\* that completes closes the account row (last_sync, status), so a run that
\* completes does so whatever the mode
C38_StreamEndsAsBatch ==
  (RunCompleted /\ main.pc = "await") => AccountRowClosed

\* C38: what does hold: the run with batch writes closes the account row
C38_BatchEnd ==
  (~STREAM_UPSERTS /\ RunCompleted /\ main.pc = "await") => AccountRowClosed

\* C38: a run with streaming writes that completes never touches the account row
\* beyond its token columns
C38_StreamLeavesAccount ==
  (STREAM_UPSERTS /\ RunCompleted /\ main.pc = "await") =>
    /\ accountsDB[sync.account].last_sync = sync.pre.account.last_sync
    /\ accountsDB[sync.account].status = sync.pre.account.status

\* the call in hand is not the first one for its account in this cycle
LaterWindow ==
  /\ sync.pc # "idle"
  /\ Len(main.ran) >= 2
  /\ main.ran[Len(main.ran) - 1].account = main.ran[Len(main.ran)].account

\* C39: when more than one window is due for an account in one cycle, every
\* syncAccount call after the first is given the access token, refresh token and
\* expiry stored for the account when the call is made (what the preceding call
\* persisted), not the values read with the account list.
C39_LaterWindowsUsePersisted ==
  LaterWindow => TokenColumnsOf(sync.trace.given) = TokenColumnsOf(sync.pre.account)

\* C39: what does hold: every call of a cycle is given the token columns read
\* with the account list
C39_GivenAsLoaded ==
  (sync.pc # "idle" /\ main.pc = "await") =>
    TokenColumnsOf(sync.trace.given) = TokenColumnsOf(main.accounts[sync.account])

(* ---------------- properties of the windows main() runs ---------------- *)
\* due by the period configured on the account: the window's length in days
DueByConfiguredPeriod(last, days, t) == last = NIL \/ t - last >= days * DAY_MS

\* C17: each window is due exactly when its timestamp is absent or lies at least
\* the period configured on the account for that window (monthly_window_days,
\* weekly_window_days, daily_window_days) before now.
C17_ConfiguredPeriod ==
  (ROLLING_SCHEDULE /\ main.pc \in {"call", "await"}) =>
    /\ "monthly" \in DueInHand <=>
         DueByConfiguredPeriod(AccountInHand.last_30d_sync_at,
                               WindowDays(AccountInHand, "monthly"), now)
    /\ "weekly" \in DueInHand <=>
         DueByConfiguredPeriod(AccountInHand.last_7d_sync_at,
                               WindowDays(AccountInHand, "weekly"), now)
    /\ "daily" \in DueInHand <=>
         DueByConfiguredPeriod(AccountInHand.last_3d_sync_at,
                               WindowDays(AccountInHand, "daily"), now)

\* the accounts main() is through with in the cycle in progress
DoneInCycle ==
  IF main.pc = "load" THEN {} ELSE { a \in Accounts : a \notin Range(main.todo) }

\* the calls of the cycle made for an account and a window
Ran(a, stage) == SelectSeq(main.ran, LAMBDA r : r.account = a /\ r.stage = stage)

\* the period of a window and the column with its length, with the default used
\* when the column is empty
PeriodDays(stage) == IF stage = "monthly" THEN 30 ELSE IF stage = "weekly" THEN 7 ELSE 1

LastSync(account, stage) ==
  IF stage = "monthly" THEN account.last_30d_sync_at
  ELSE IF stage = "weekly" THEN account.last_7d_sync_at ELSE account.last_3d_sync_at

ConfiguredDays(account, stage) ==
  LET v == IF stage = "monthly" THEN account.monthly_window_days
           ELSE IF stage = "weekly" THEN account.weekly_window_days
           ELSE account.daily_window_days
      dflt == IF stage = "monthly" THEN 30 ELSE IF stage = "weekly" THEN 7 ELSE 3
  IN IF v = NIL \/ v = 0 THEN dflt ELSE v

WindowDue(account, stage) ==
  LastSync(account, stage) = NIL \/ now - LastSync(account, stage) >= PeriodDays(stage) * DAY_MS

Windows == {"monthly", "weekly", "daily"}

NoneDue(account) == \A w \in Windows : ~WindowDue(account, w)

\* C19: when none of the three windows of an account is due, main() still calls
\* syncAccount exactly once for it in the cycle, with the default window length
\* DAYS_WINDOW, and the three last-sync timestamps of the account stay as they
\* were.
C19_FallbackPass ==
  ROLLING_SCHEDULE =>
    \A a \in DoneInCycle :
      NoneDue(main.accounts[a]) =>
        /\ Len(SelectSeq(main.ran, LAMBDA r : r.account = a)) = 1
        /\ Len(Ran(a, "fallback")) = 1
        /\ Ran(a, "fallback")[1].windowDays = DAYS_WINDOW
        /\ \A w \in Windows : LastSync(accountsDB[a], w) = LastSync(main.accounts[a], w)

\* main() is through with an account none of whose windows was due; the one run
\* made for it completed
C19_Witness ==
  /\ ROLLING_SCHEDULE
  /\ "a1" \in DoneInCycle
  /\ NoneDue(main.accounts["a1"])
  /\ Len(Ran("a1", "fallback")) = 1
  /\ accountsDB["a1"].last_sync = now

\* the cooldown of a rule, counted in days from its last run, has not elapsed
CooldownRunning(rule, t) ==
  /\ rule.last_run # NIL
  /\ rule.settings.frequency_days # NIL
  /\ rule.settings.frequency_days > 0
  /\ t - rule.last_run < rule.settings.frequency_days * DAY_MS

\* C20: when processAccount comes to a rule whose cooldown has not elapsed since
\* the last_run it was loaded with (frequency_days = 1 and a last run ten hours
\* ago, say), the step sends no remote call, writes no audit row and leaves the
\* rule row, its last_run included, as it was: no action is produced for it.
C20_CooldownSkip ==
  [][(opt.pc = "rules" /\ opt' # opt /\ CooldownRunning(Head(opt.rulesForUser), now))
       => /\ remoteKeyword' = remoteKeyword
          /\ optimization_logs' = optimization_logs
          /\ rulesDB' = rulesDB
          /\ opt'.trace.sends = opt.trace.sends
          /\ opt'.trace.executed = opt.trace.executed
          /\ opt'.trace.skipped = opt.trace.skipped + 1]_vars

\* the account with keywords in store was processed ten hours or eleven after
\* the last run of the one-day rule, and the rule was skipped
C20_Witness ==
  /\ opt.trace.account = "a1"
  /\ opt.trace.skipped = 1
  /\ opt.trace.executed = 0
  /\ rulesDB["r1"].last_run = T0 - 10 * 60
  /\ rulesDB["r1"].settings.frequency_days = 1
  /\ opt.trace.at - rulesDB["r1"].last_run \in {10 * 60, 11 * 60}
  /\ optimization_logs = <<>>

\* C21: when processAccount evaluates a rule whose cooldown has elapsed (or
\* that never ran), the step sets the last_run of the rule to the current time,
\* with actions or without, and whatever the answers to the remote calls were.
C21_LastRunUpdated ==
  [][(opt.pc = "rules" /\ opt' # opt /\ ~CooldownRunning(Head(opt.rulesForUser), now))
       => /\ opt'.trace.executed = opt.trace.executed + 1
          /\ rulesDB'[Head(opt.rulesForUser).id].last_run = now]_vars

\* the rule was evaluated for the first account, where no keyword matched, and
\* for the second, where the one remote call made for it failed; its last_run
\* is the time of the pass
C21_Witness ==
  /\ opt.trace.account = "a2"
  /\ opt.trace.executed = 1
  /\ opt.trace.sends = 1
  /\ LogRows # {}
  /\ \A x \in LogRows : x.api_status = 0 /\ x.amazon_account_id = "a2" /\ x.created_at = now
  /\ rulesDB["r1"].last_run = now

\* the scope of the rule an audit row was written for
ScopeOf(x) == rulesDB[x.rule_id].settings.scope

InScope(x) ==
  CASE ScopeOf(x).type = "CAMPAIGNS" -> x.campaign_id \in ScopeOf(x).campaign_ids
    [] ScopeOf(x).type = "KEYWORDS" -> x.keyword_id \in ScopeOf(x).keyword_ids
    [] OTHER -> ScopeOf(x).type = "ALL"

\* C22: every action produced for a rule (each is logged) targets a keyword in
\* the scope of the rule: of a campaign in the campaign set for a CAMPAIGNS
\* scope, with its id in the keyword-id set for a KEYWORDS scope, any keyword of
\* the account only for the scope ALL.
C22_ActionsInScope == \A x \in LogRows : InScope(x)

\* the same for the rules whose scope selects at least one campaign or keyword
C22_SelectiveScopes ==
  \A x \in LogRows :
    (ScopeOf(x).campaign_ids # {} \/ ScopeOf(x).keyword_ids # {}) => InScope(x)

\* the value of a metric on a stored keyword row: a column, or clicks over
\* impressions and spend over clicks, 0 on a zero denominator
Measure(kw, metric) ==
  CASE metric = "ctr" -> (IF kw.impressions = 0 THEN 0 ELSE (kw.clicks * Scale) \div kw.impressions)
    [] metric = "cpc" -> (IF kw.clicks = 0 THEN 0 ELSE (kw.spend * Scale) \div kw.clicks)
    [] OTHER -> kw[metric]

Holds(v, comparator, threshold) ==
  CASE comparator = ">" -> v > threshold
    [] comparator = "<" -> v < threshold
    [] comparator = ">=" -> v >= threshold
    [] comparator = "<=" -> v <= threshold
    [] comparator = "==" -> v = threshold

Matches(kw, conditions) ==
  \A i \in DOMAIN conditions :
    Holds(Measure(kw, conditions[i].metric), conditions[i].comparison, conditions[i].value)

ActionsOn(kw) == { i \in DOMAIN evaluation.actions : evaluation.actions[i].keywordRowId = kw.id }

\* C23: buildActionsForRule produces exactly one action for a keyword in the
\* scope of the rule when every condition of the rule holds for the stored
\* metrics of the keyword under its comparator (CTR being clicks / impressions
\* and CPC spend / clicks, 0 on a zero denominator), and none for a keyword that
\* fails a condition or lies outside the scope.
C23_ActionIffAllConditions ==
  evaluation.pc = "done" =>
    \A kw \in evaluation.keywordsForAccount :
      Cardinality(ActionsOn(kw)) =
        IF /\ kw \in filterKeywordsByScope(evaluation.keywordsForAccount, evaluation.rule.settings.scope)
           /\ Matches(kw, evaluation.rule.settings.conditions)
        THEN 1 ELSE 0

\* a rule with two conditions was applied: the first row passes the first
\* condition and fails the second, the second row passes both and is the one
\* keyword with an action
C23_Witness ==
  /\ evaluation.pc = "done"
  /\ evaluation.rule.settings.conditions = <<Condition("clicks", ">", 50), Condition("acos", ">", 0)>>
  /\ evaluation.rule.settings.scope.type = "ALL"
  /\ Len(evaluation.actions) = 1
  /\ evaluation.actions[1].keywordAmazonId = "k3"

\* the audit rows of the remote calls that succeeded and were not followed by a
\* later successful call for the same keyword
LastAccepted ==
  { i \in DOMAIN optimization_logs :
      /\ optimization_logs[i].api_status = 200
      /\ \A j \in DOMAIN optimization_logs :
           (j > i /\ optimization_logs[j].keyword_id = optimization_logs[i].keyword_id)
             => optimization_logs[j].api_status # 200 }

StoreHas(x) ==
  \E k \in keywords :
    /\ k.id = x.keyword_id
    /\ x.api_type = "pause" => k.status = "paused"
    /\ x.api_type = "adjust_bid_percentage" => k.bid = x.new_bid

\* C24: once the actions of a rule have been applied for an account, the store
\* holds, for every action the remote platform accepted, the new bid of the
\* keyword (the status paused for a pause action).
C24_StoreFollowsRemote == \A i \in LastAccepted : StoreHas(optimization_logs[i])

\* the audit rows written for the account the optimizer has in hand in this pass
RowsOfAccountInHand ==
  { i \in DOMAIN optimization_logs :
      /\ optimization_logs[i].amazon_account_id = opt.trace.account
      /\ optimization_logs[i].created_at = opt.trace.at }

\* every PUT the optimizer sent for the account in hand has its audit row
C25_OptimizerRows ==
  opt.trace.account # NULL => Cardinality(RowsOfAccountInHand) = opt.trace.sends

\* the audit rows of an update request of the dashboard
RowsOfPut(p) ==
  { i \in DOMAIN optimization_logs :
      /\ optimization_logs[i].entity_id = p.amazonId
      /\ optimization_logs[i].new_bid = p.value
      /\ optimization_logs[i].amazon_account_id = p.accountId
      /\ (optimization_logs[i].api_status = 200) = p.accepted }

\* C25: every remote mutation the executor attempted, for an action of the
\* optimizer and for an item of an update request of the dashboard alike, has
\* exactly one audit row with the old and the new value and the status of the
\* remote answer, whether the call succeeded or failed.
C25_OneAuditRowPerMutation ==
  /\ C25_OptimizerRows
  /\ \A i \in DOMAIN apply.puts : Cardinality(RowsOfPut(apply.puts[i])) = 1

\* the step is an update request that came to its PUT
PutStep == Len(apply'.puts) > Len(apply.puts)

\* the request of that step
PutOfStep == apply'.puts[Len(apply'.puts)]

\* the keyword rows of the other accounts are after the step as they were before
ForeignKeywordsKept ==
  \A k \in keywords :
    k \notin KeywordsOf(keywords, campaigns, PutOfStep.accountId) => k \in keywords'

\* C40: applyAmazonUpdates for account A changes only store rows of account A: no
\* keyword row of another account that carries the provider id of an item is
\* modified, no row of another account at all, and when the remote batch call
\* fails no store row is changed.
C40_UpdateFrame ==
  [][PutStep =>
       /\ ForeignKeywordsKept
       /\ \A a \in Accounts \ {PutOfStep.accountId} : accountsDB'[a] = accountsDB[a]
       /\ campaigns' = campaigns
       /\ adGroups' = adGroups
       /\ ~PutOfStep.accepted =>
            /\ keywords' = keywords
            /\ accountsDB' = accountsDB]_vars

\* C40: what does hold: a request whose PUT is refused leaves the campaign,
\* ad-group and keyword tables as they were, and no request touches the account
\* row of another account
C40_RefusedLeavesEntities ==
  [][PutStep =>
       /\ \A a \in Accounts \ {PutOfStep.accountId} : accountsDB'[a] = accountsDB[a]
       /\ campaigns' = campaigns
       /\ adGroups' = adGroups
       /\ ~PutOfStep.accepted => keywords' = keywords]_vars

\* C40: the keyword rows of other accounts are left alone (they are not: the
\* update is filtered by the provider id only)
C40_ForeignKeywordsKept == [][PutStep => ForeignKeywordsKept]_vars

\* C40: a refused PUT leaves the account row (it does not: ensureToken has
\* written the token columns before the PUT is sent)
C40_RefusedLeavesAccount ==
  [][(PutStep /\ ~PutOfStep.accepted) => accountsDB' = accountsDB]_vars

\* C26: the optimizer never reads the campaigns and keywords of an account while
\* a reconciliation of that account is in progress: it reads the store as it
\* was before the run wrote anything or as it is after the run returned.
C26_NoReadDuringSync == ~opt.trace.midSync

\* C27: a failure on one account, an exception out of syncAccount or an early
\* return of syncAccount or processAccount, does not stop the pass: when the
\* cycle of the sync daemon ends syncAccount has been called for every account
\* it loaded, when the pass of the optimizer ends processAccount has been called
\* for every account it loaded, and until then each main() always has its next
\* step to take: the next account, the call, the step after the call returned,
\* the next rule of the account in hand.
C27_PassGoesOn ==
  /\ CycleEnded => \A a \in DOMAIN main.accounts :
                     \E i \in DOMAIN main.ran : main.ran[i].account = a
  /\ PassEnded => opt.done = opt.loaded
  /\ (main.pc = "pick" /\ ~CycleEnded) => ENABLED MainPick
  /\ main.pc = "call" => ENABLED MainSync
  /\ (main.pc = "await" /\ sync.pc = "returned") => ENABLED MainAfterSync
  /\ (opt.pc = "accounts" /\ ~PassEnded) => ENABLED OptAccount
  /\ opt.pc = "rules" => opt.rulesForUser # <<>>

\* the call for the first account ended in an exception, the second account was
\* synchronised to the end in the same cycle; the optimizer then left the first
\* account early, for want of campaigns, and ran the rule on the second
C27_Witness ==
  /\ CycleEnded
  /\ main.caught = {"a1"}
  /\ \E i \in DOMAIN main.ran : main.ran[i].account = "a2"
  /\ \E c \in campaigns : c.account_id = "a2"
  /\ \E k \in keywords : k.keyword_id \in KeywordsOfCampaign("c3")
  /\ \A c \in campaigns : c.account_id # "a1"
  /\ PassEnded
  /\ opt.done = <<"a1", "a2">>
  /\ opt.trace.account = "a2"
  /\ opt.trace.executed = 1

\* an orchestration that is polling or downloading
InFlight == report.pc \in {"poll", "download"}

\* the rule of launching: in a run that has its campaign listing both report
\* calls have been made before the first of them is awaited
C28_BothLaunched ==
  (sync.pc = "campaigns" /\ ~SKIP_METRICS) => sync.trace.reportCalls = 2

\* C28: syncAccount does not return, and main() does not go on to the next
\* window or account, while a report orchestration the run launched is still
\* polling or downloading: an orchestration in flight belongs to the run of
\* syncAccount that is in progress.
C28_NoOrchestrationOutlivesRun ==
  InFlight => /\ sync.pc \notin {"idle", "returned"}
              /\ report.run = Len(main.ran)

\* the ways in which a call of syncAccount runs to its end
CompletedOutcomes == {"completed", "completed_stream"}

WindowStamps == {"last_30d_sync_at", "last_7d_sync_at", "last_3d_sync_at"}

\* C29: main() sets the timestamp of a window only after a call of syncAccount
\* that ran to completion: after a call that stopped early (reauth_required, no
\* profile id, campaign listing refused, campaign upsert error) the three
\* timestamps of the account are what they were.
C29_StampOnlyAfterCompletion ==
  [][(MainAfterSync /\ sync.trace.outcome \notin CompletedOutcomes)
       => \A f \in WindowStamps :
            accountsDB'[sync.account][f] = accountsDB[sync.account][f]]_vars

\* what the caller of getCampaignMetrics / getKeywordMetrics gets from the await:
\* the function returns from its try block or from its catch block, so the
\* promise is fulfilled, with a Map
Settled(r) == [state |-> "fulfilled", value |-> r.result]

EmptyResult == [state |-> "fulfilled", value |-> {}]

\* the first half of the classification: 400, 403, 404, 405 and 425 without a
\* job id end the call with an empty Map before any status fetch
C30_UnavailableIsEmpty ==
  (report.pc = "done" /\ report.how = "unavailable")
    => (Settled(report) = EmptyResult /\ report.fetches = 0)

\* C30: a creation refused with 400, 403, 404, 405 or 425 (no usable job id)
\* makes the report call return an empty result without polling, and a creation
\* refused with any other status makes the call end in a way the caller can tell
\* from an empty result.
C30_CreateFailureClassified ==
  /\ C30_UnavailableIsEmpty
  /\ (report.pc = "done" /\ report.how = "caught") => Settled(report) # EmptyResult

\* a 401, or a message that says unauthorized, ends the poll loop at once, and
\* the call ends with an empty Map
C31_PollStopsOn401 ==
  (report.pc = "done" /\ report.how = "unauthorized")
    => /\ report.result = {}
       /\ report.lastStatus \in {"r401", "unauthorized_message"}

\* a run makes four report calls at most: two launched, one more for each kind
C31_NoThirdRun == sync.trace.reportCalls <= 4

\* the run in hand has awaited its keyword report: the call was read, and made
\* again when it was empty
KeywordReportAwaited == sync.trace.kwReport \in {"empty", "rows"}

\* C31: for each kind of report in a run of syncAccount, a 401 while polling ends
\* the poll loop at once with an empty result, the caller then refreshes the
\* token once and makes the whole call once more, and never a third time: a run
\* that completed and whose keyword report was stopped by a 401 has made the
\* keyword call again.
C31_RetryAfterPoll401 ==
  /\ C31_PollStopsOn401
  /\ C31_NoThirdRun
  /\ (/\ sync.pc = "returned"
      /\ sync.trace.outcome \in CompletedOutcomes
      /\ report.pc = "done"
      /\ report.kind = "keyword"
      /\ report.how = "unauthorized"
      /\ report.run = Len(main.ran))
       => KeywordReportAwaited

\* the account row holds the token t together with a refresh token and the expiry
\* of a token issued now
Persisted(row, t) ==
  /\ row.access_token = t
  /\ row.refresh_token # NULL
  /\ row.token_expires_at = now + DEFAULT_EXPIRES_IN
  /\ row.status = "active"

\* C32: whenever a token refresh succeeds, in syncAccount at its start or in
\* mid-run or in ensureToken of applyAmazonUpdates, the step that goes on to use
\* the new access token has written it, with the refresh token and the expiry,
\* to the row of the account.
C32_PersistedBeforeUse ==
  [][issued' > issued =>
       \E a \in Accounts :
         /\ Persisted(accountsDB'[a], issued')
         /\ \/ sync'.pc # "idle" /\ sync'.account = a /\ sync'.accessToken = issued'
            \/ /\ apply'.puts # apply.puts
               /\ apply'.puts[Len(apply'.puts)].accountId = a
               /\ apply'.puts[Len(apply'.puts)].token = issued']_vars

\* a run refreshed its token in mid-run and went on with it, and an update
\* request refreshed the token of the same account after a 401
C32_Witness ==
  /\ sync.pc = "adgroups"
  /\ sync.trace.startRefresh = "none"
  /\ sync.accessToken > 0
  /\ sync.trace.writes > 0
  /\ apply.puts # <<>>
  /\ apply.puts[1].accountId = "a1"
  /\ apply.puts[1].sends = 2
  /\ apply.puts[1].token = issued
  /\ accountsDB["a1"].access_token = issued

\* C33: a keyword upsert refused with 23503 is sent exactly once more, without
\* the ad-group reference; a refusal of that second request, or any other error
\* of the first, is logged and the upsert is not sent again; and the run goes on:
\* a run that sent keyword upserts ends completed, whatever became of them.
C33_ForeignKeyRetry ==
  /\ \A i \in DOMAIN sync.trace.kwUpserts :
       LET u == sync.trace.kwUpserts[i]
       IN /\ u.sends = IF u.outcome \in {"fk_ok", "fk_fail"} THEN 2 ELSE 1
          /\ u.stored = (u.outcome \in {"ok", "fk_ok"})
  /\ (sync.pc = "returned" /\ sync.trace.kwUpserts # <<>>)
       => sync.trace.outcome \in CompletedOutcomes

\* the keywords of the first ad group were refused twice, those of the second
\* were stored by the same run
C33_Witness ==
  /\ sync.pc = "returned"
  /\ Len(sync.trace.kwUpserts) = 2
  /\ sync.trace.kwUpserts[1].outcome = "fk_fail"
  /\ sync.trace.kwUpserts[2].outcome = "ok"
  /\ \E k \in keywords : k.amazon_keyword_id = "k3"
  /\ \A k \in keywords : k.amazon_keyword_id # "k1"

\* the attempts of the call of putJson in hand
PutLog == apply.put.log

\* C34: in one call of putJson a 401 brings one token refresh and one more PUT
\* of the same batch, and no more: the call asks for one refresh at most, and an
\* attempt whose second PUT was refused is the last attempt of the call.
C34_OneRefreshOneResend ==
  /\ apply.put.refreshes <= 1
  /\ \A i \in DOMAIN PutLog :
       (PutLog[i].first = "401" /\ PutLog[i].refresh = "ok" /\ PutLog[i].second # "200")
         => i = Len(PutLog)

\* within an attempt the rule holds: one refresh and one more PUT after a 401
C34_WithinAttempt ==
  \A i \in DOMAIN PutLog :
    /\ PutLog[i].first # "401" => (PutLog[i].refresh = "none" /\ PutLog[i].second = "none")
    /\ apply.put.sends <= 2 * Len(PutLog)
    /\ apply.put.refreshes <= Len(PutLog)

\* the errors the statement wants retried, and those it wants final
TransientErrors == {"net_named", "net_plain", "429", "500", "502", "503", "504"}

ClientErrors == {"400", "403", "404"}

\* the sleeps of withRetry: 500 ms, then 1000 ms, three attempts at most
C35_Backoff ==
  /\ Len(PutLog) <= RetryAttempts
  /\ Len(apply.put.waits) <= 2
  /\ \A i \in DOMAIN apply.put.waits :
       apply.put.waits[i] = IF i = 1 THEN 500 ELSE 1000

\* C35: an update that fails with a network error, a 429 or a 5xx is tried again
\* after 500 ms and then after 1000 ms, three attempts in all, and one that fails
\* with a client error (4xx other than 401 and 429) is not tried again.
C35_RetryClassification ==
  /\ C35_Backoff
  /\ \A i \in DOMAIN PutLog :
       /\ (PutLog[i].error \in TransientErrors /\ i < RetryAttempts /\ apply.put.pc # "try")
            => i < Len(PutLog)
       /\ PutLog[i].error \in ClientErrors => i = Len(PutLog)

====
